---- MODULE Spec2Model ----
(***************************************************************************)
(* A model of dervo: the code snapshot cache of dervo/checkout.py, run by  *)
(* several independent processes on one shared filesystem, and the         *)
(* configuration resolver of dervo/config.py and dervo/snippets.py: the    *)
(* snake of directories, the deep merge of the fragments (on values and on *)
(* the dict objects of the interpreter), the scan for placeholders, their  *)
(* evaluation and the build of the configuration; and the retry loops of   *)
(* get_tags (dervo/experiment.py) and force_symlink (dervo/snippets.py).   *)
(***************************************************************************)
EXTENDS Integers, Sequences, FiniteSets, TLC

(***************************************************************************)
(* Bounds of the model and constants of the program.                       *)
(***************************************************************************)
\* Number of independent processes calling the checkout concurrently.
NProcs == 2
\* Number of submodules that `git submodule status` lists in the checkout.
NSubmodules == 1
\* n_repo_checks=2, the default of git_repo_careful_checkout.
n_repo_checks == 2
\* n_post_cmd_tries=2, the default of git_repo_perform_checkout_and_postcmd.
n_post_cmd_tries == 2

Procs == 1 .. NProcs

(***************************************************************************)
(* The repository.  Commits are the canonical hexshas it holds; co_commit  *)
(* is what the caller asks for: the symbolic name HEAD, a hexsha, or a     *)
(* name that does not resolve.                                             *)
(***************************************************************************)
Commits == {"c1", "c2"}
CoCommitNames == {"HEAD", "c2", "nosuch", "RAW"}
NoSha == "none"

(***************************************************************************)
(* Paths.  A path is its parent directory and its last component; the     *)
(* last component 0 is the one named after the commit sha, 1 .. NProcs    *)
(* are the names tempfile.mkdtemp can draw.                                *)
(***************************************************************************)
CheckoutParent == "checkout_root/basename"
SystemTmp == "tmp"
ParentDirs == {CheckoutParent, SystemTmp}
Leaves == 0 .. NProcs
Paths == [dir : ParentDirs, leaf : Leaves]
NoPath == [dir |-> "nowhere", leaf |-> 0]

\* Path(checkout_root)/f'{co_repo_basename}/{co_commit_sha}'
Destination == [dir |-> CheckoutParent, leaf |-> 0]
\* code_root, where the source repository lives
CodeRoot == [dir |-> "code_root", leaf |-> 0]
\* workfolder/'_code', where the code is copied with to_workfolder
WorkfolderCode == [dir |-> "workfolder/_code", leaf |-> 0]
\* co_repo_fold.parent
Parent(path) == path.dir

(***************************************************************************)
(* The content of one directory of the filesystem: whether it exists, the  *)
(* commit its .git HEAD points to ("none": no repository in it), how many  *)
(* submodules were cloned into it, whether the post-checkout command ran   *)
(* successfully in it, and whether it holds the FINISHED file.             *)
(***************************************************************************)
AbsentDir == [exists |-> FALSE, head |-> NoSha, subs |-> 0,
              post |-> FALSE, finished |-> FALSE]
EmptyDir == [AbsentDir EXCEPT !.exists = TRUE]
AbandonedDir(sha) == [EmptyDir EXCEPT !.head = sha, !.subs = NSubmodules]
CompleteDir(sha, cmd) == [AbandonedDir(sha) EXCEPT !.post = cmd, !.finished = TRUE]

IsEmptyDir(d) == d.exists /\ d.head = NoSha /\ d.subs = 0 /\ ~d.finished

VARIABLES
    co_commit,      \* the revision the callers ask for
    has_repo,       \* TRUE: code_root is a git repository
    src_head,       \* the commit HEAD of the source repository points to
    post_cmd,       \* TRUE: a post-checkout command is configured
    to_workfolder,  \* the argument to_workfolder of manage_code_checkout
    fs,             \* the shared filesystem: Paths -> directory content
    loc,            \* each process's position in the code and local variables
    writers,        \* history: the processes that changed each directory
    coDone,         \* history: full checkouts completed in each directory
    cfgs,           \* yml_list_merge: the list of fragments to merge
    merged_cfg,     \* yml_list_merge: merged_cfg
    prev_cfg,       \* history: merged_cfg before the last pass of the loop
    k               \* yml_list_merge: fragments folded so far

\* build_config_yml_py, one run of the program after the other.
VARIABLES
    tree,                   \* the files of each directory of the snake
    pyeval_allowed_keys,    \* the argument pyeval_allowed_keys
    cwd,                    \* the working directory of the process
    rpc,                    \* the position in build_config_yml_py
    yml_configs,            \* yml_configs: level -> fragment
    pyeval_queries,         \* pyeval_queries: level -> dotted key -> text
    cwd_before,             \* _perform_pyeval_updates: cwd_before
    cfg_script,             \* cfg_script: the statements of the script
    ip,                     \* the statement of cfg_script exec has come to
    pyeval_updates,         \* cfg_scope['_DRV_PYEVAL']
    yml_merged_config,      \* the configuration returned
    execs,                  \* history: calls of exec in this run
    loaded_configs,         \* history: yml_configs as loaded
    runs,                   \* history: runs that returned
    first_config,           \* history: what the first run returned
    first_loaded            \* history: yml_configs as the first run loaded it

\* Three fragments merged at once and in two calls.
VARIABLES
    abc,            \* the fragments A, B, C
    merged_abc,     \* yml_list_merge([A, B, C])
    merged_bc,      \* yml_list_merge([B, C])
    merged_a_bc     \* yml_list_merge([A, yml_list_merge([B, C])])

\* yml_list_merge on the dict objects of the interpreter.
VARIABLES
    heap,           \* the dict objects
    cfg_refs,       \* yml_list_merge: cfgs, a list of objects
    input_cfgs,     \* history: what the objects of cfgs held at the call
    merged_ref,     \* yml_list_merge: merged_cfg, an object (0: not yet)
    hk,             \* yml_list_merge: fragments folded so far
    spliced         \* TRUE: the caller has spliced a value into the result

\* _find_pyeval_queries on a fragment with one leaf.
VARIABLES
    scan_leaf,      \* the leaf of the fragment
    scan_key,       \* the dotted key of the leaf
    scan_queries    \* what _find_pyeval_queries returned

\* snake_create
VARIABLES
    listing,        \* the filenames in each directory
    snake_path,     \* snake_create: path, the start directory
    fold,           \* snake_create: the directory the loop has come to
    snake_lst,      \* snake_create: snake_lst
    snake           \* the items of the dict returned, in its order

\* get_tags and force_symlink, one call of each.
VARIABLES
    get_tags_pc,    \* get_tags: the position in the code
    glob_fails,     \* history: the listings that raised OSError
    symlink_pc,     \* force_symlink: the position in the code
    symlink_i,      \* force_symlink: i of `for i in range(256)`
    symlink_made    \* TRUE: linkname.symlink_to(where) has succeeded

\* The splice of _perform_pyeval_updates on fragments whose keys can hold
\* the separator.
VARIABLES
    sp_configs,     \* yml_configs at the call: level -> fragment
    sp_spliced,     \* yml_configs after the call
    sp_pc           \* "start", "updated" or "TypeError"

inVars == <<co_commit, has_repo, src_head, post_cmd, to_workfolder>>
coVars == <<inVars, fs, loc, writers, coDone>>
mgVars == <<cfgs, merged_cfg, prev_cfg, k>>
rsInputs == <<tree, pyeval_allowed_keys>>
rsVars ==
    <<rsInputs, cwd, rpc, yml_configs, pyeval_queries, cwd_before,
      cfg_script, ip, pyeval_updates, yml_merged_config, execs,
      loaded_configs, runs, first_config, first_loaded>>
\* The variables of the configuration resolver and of its parts.
asVars == <<abc, merged_abc, merged_bc, merged_a_bc>>
hpVars == <<heap, cfg_refs, input_cfgs, merged_ref, hk, spliced>>
scVars == <<scan_leaf, scan_key, scan_queries>>
snVars == <<listing, snake_path, fold, snake_lst, snake>>
rtVars == <<get_tags_pc, glob_fails, symlink_pc, symlink_i, symlink_made>>
spVars == <<sp_configs, sp_spliced, sp_pc>>
cfVars == <<rsVars, asVars, hpVars, scVars, snVars, rtVars, spVars>>
vars == <<coVars, mgVars, cfVars>>

(***************************************************************************)
(* Steps of process p.                                                     *)
(***************************************************************************)
Set(p, r) == loc' = [loc EXCEPT ![p] = r]

\* One filesystem change by process p in directory path.
Modify(p, path, d) ==
    /\ fs' = [fs EXCEPT ![path] = d]
    /\ writers' = [writers EXCEPT ![path] = @ \cup {p}]

\* What a checkout step leaves alone: the inputs and the resolver's variables.
Frame == UNCHANGED <<inVars, mgVars, cfVars>>

(***************************************************************************)
(* git_get_hexsha: repo.commit(co_commit).hexsha, or git.BadName.          *)
(***************************************************************************)
\* Mutant: the name is passed on as it is when it does not resolve.
git_get_hexsha_NoRaise(name, head) ==
    IF name = "HEAD" THEN head ELSE name

git_get_hexsha(name, head) ==
    IF name = "HEAD" THEN head
    ELSE IF name \in Commits THEN name
    ELSE NoSha

(***************************************************************************)
(* git_repo_is_checkout_complete: a valid repository, its HEAD at the sha, *)
(* and the FINISHED file in it.                                            *)
(***************************************************************************)
git_repo_is_checkout_complete(d, sha) ==
    /\ d.exists
    /\ d.head # NoSha
    /\ d.head = sha
    /\ d.finished

(***************************************************************************)
(* The state before any call: the inputs, and the deterministic directory  *)
(* as earlier runs for the same revision can have left it: absent,         *)
(* created and empty, checked out without the marker (a failed             *)
(* post-command), or complete.  A revision is checked out under the        *)
(* checkout root; to_workfolder is drawn for the calls that check nothing  *)
(* out.                                                                    *)
(***************************************************************************)
InitDirs(sha, cmd) ==
    IF sha \in Commits
    THEN {AbsentDir, EmptyDir, AbandonedDir(sha), CompleteDir(sha, cmd)}
    ELSE {AbsentDir}

\* The local variables of a call that has not started:
\*   pc             position in the code
\*   co_commit_sha  the canonical sha, or RAW
\*   co_repo_fold   co_repo_fold of git_repo_careful_checkout
\*   i, co_good     the polling loop
\*   sm             index of the submodule loop
\*   tries          index of the post-command loop
\*   post_output    post_output is not None
\*   ret, err       the path returned, the error raised
\*   ops            history: the filesystem operations the call ran
\*   postLog        history: the outcomes of its post-command attempts
\*   polls          history: what each completeness check answered
\*   fresh          history: mkdtemp's directory did not exist before
LocInit ==
    [pc |-> "start", co_commit_sha |-> NoSha, co_repo_fold |-> NoPath,
     i |-> 0, co_good |-> FALSE, sm |-> 0, tries |-> 0, post_output |-> FALSE,
     ret |-> NoPath, err |-> "none", ops |-> {}, postLog |-> <<>>,
     polls |-> <<>>, fresh |-> FALSE]

CoInit ==
    /\ co_commit \in CoCommitNames
    /\ has_repo \in BOOLEAN
    /\ src_head \in {"c1"}
    /\ post_cmd \in BOOLEAN
    /\ to_workfolder \in IF co_commit = "RAW" \/ ~has_repo
                          THEN BOOLEAN ELSE {FALSE}
    /\ \E d0 \in InitDirs(IF has_repo THEN git_get_hexsha(co_commit, src_head)
                           ELSE NoSha, post_cmd) :
          /\ fs = [p \in Paths |-> IF p = Destination THEN d0 ELSE AbsentDir]
          /\ coDone = [p \in Paths |->
                          IF p = Destination /\ d0.finished THEN 1 ELSE 0]
    /\ loc = [p \in Procs |-> LocInit]
    /\ writers = [p \in Paths |-> {}]

(***************************************************************************)
(* get_commit_sha_repo: no checkout for RAW or without a repository;       *)
(* otherwise the canonical sha, or git.BadName raised by git_get_hexsha.   *)
(***************************************************************************)
\* Mutant: `or (repo is None)` is lost, the revision is looked up in None.
GetCommitShaRepo_NeedsRepo(p) ==
    /\ loc[p].pc = "start"
    /\ IF co_commit = "RAW"
       THEN Set(p, [loc[p] EXCEPT !.co_commit_sha = "RAW", !.pc = "manage"])
       ELSE IF ~has_repo \/ git_get_hexsha(co_commit, src_head) = NoSha
            THEN Set(p, [loc[p] EXCEPT !.pc = "raised",
                            !.err = IF has_repo THEN "BadName"
                                    ELSE "AttributeError"])
            ELSE Set(p, [loc[p] EXCEPT
                            !.co_commit_sha = git_get_hexsha(co_commit, src_head),
                            !.pc = "manage"])
    /\ UNCHANGED <<fs, writers, coDone, inVars, mgVars, cfVars>>

GetCommitShaRepo(p) ==
    /\ loc[p].pc = "start"
    /\ IF co_commit = "RAW" \/ ~has_repo
       THEN Set(p, [loc[p] EXCEPT !.co_commit_sha = "RAW", !.pc = "manage"])
       ELSE IF git_get_hexsha(co_commit, src_head) = NoSha
            THEN Set(p, [loc[p] EXCEPT !.pc = "raised", !.err = "BadName"])
            ELSE Set(p, [loc[p] EXCEPT
                            !.co_commit_sha = git_get_hexsha(co_commit, src_head),
                            !.pc = "manage"])
    /\ UNCHANGED <<fs, writers, coDone>>
    /\ Frame

(***************************************************************************)
(* manage_code_checkout: for a sha the deterministic destination, with     *)
(* which it enters git_repo_careful_checkout, whose first step is the test *)
(* `if not co_repo_fold.exists()`; for RAW code_root itself, or with       *)
(* to_workfolder its copy, made by shutil.rmtree and shutil.copytree in    *)
(* the workfolder of the call.                                             *)
(***************************************************************************)
\* Mutant: the test `co_commit_sha != 'RAW'` is lost.
ManageCodeCheckout_ChecksOutRaw(p) ==
    /\ loc[p].pc = "manage"
    /\ Set(p, [loc[p] EXCEPT !.co_repo_fold = Destination,
                               !.pc = IF ~fs[Destination].exists
                                      THEN "mkdir" ELSE "poll"])
    /\ UNCHANGED <<fs, writers, coDone, inVars, mgVars, cfVars>>

ManageCodeCheckout(p) ==
    /\ loc[p].pc = "manage"
    /\ IF loc[p].co_commit_sha # "RAW"
       THEN Set(p, [loc[p] EXCEPT !.co_repo_fold = Destination,
                                  !.pc = IF ~fs[Destination].exists
                                         THEN "mkdir" ELSE "poll"])
       ELSE IF to_workfolder
            THEN Set(p, [loc[p] EXCEPT !.ops = @ \cup {"copytree"},
                                       !.ret = WorkfolderCode,
                                       !.pc = "returned"])
            ELSE Set(p, [loc[p] EXCEPT !.ret = CodeRoot, !.pc = "returned"])
    /\ UNCHANGED <<fs, writers, coDone>>
    /\ Frame

(***************************************************************************)
(* The polling loop: one completeness check.  A good checkout breaks the   *)
(* loop and, `if not co_good` being false, co_repo_fold is returned as it  *)
(* is; otherwise the loop sleeps and goes on to the next check, and after  *)
(* the last one `if not co_good` sends the call to the fallback.           *)
(***************************************************************************)
\* Mutant: the `if not co_good` test is lost, a good poll falls back too.
Poll_AlwaysFallback(p) ==
    /\ loc[p].pc = "poll"
    /\ loc[p].i < n_repo_checks
    /\ LET good == git_repo_is_checkout_complete(
                        fs[loc[p].co_repo_fold], loc[p].co_commit_sha)
       IN  IF good
           THEN loc' = [loc EXCEPT ![p] =
                           [loc[p] EXCEPT !.co_good = TRUE,
                                          !.polls = Append(@, TRUE),
                                          !.pc = "fallback"]]
           ELSE loc' = [loc EXCEPT ![p] =
                           [loc[p] EXCEPT !.co_good = FALSE,
                                          !.polls = Append(@, FALSE),
                                          !.i = @ + 1,
                                          !.pc = IF loc[p].i + 1 < n_repo_checks
                                                 THEN "poll" ELSE "fallback"]]
    /\ UNCHANGED <<fs, writers, coDone, inVars, mgVars, cfVars>>

\* Mutant: the loop goes on until the directory is complete.
Poll_WaitsForCompletion(p) ==
    /\ loc[p].pc = "poll"
    /\ LET good == git_repo_is_checkout_complete(
                        fs[loc[p].co_repo_fold], loc[p].co_commit_sha)
       IN  IF good
           THEN loc' = [loc EXCEPT ![p] =
                           [loc[p] EXCEPT !.co_good = TRUE,
                                          !.polls = <<TRUE>>,
                                          !.ret = loc[p].co_repo_fold,
                                          !.pc = "returned"]]
           ELSE loc' = [loc EXCEPT ![p] =
                           [loc[p] EXCEPT !.co_good = FALSE,
                                          !.polls = <<FALSE>>]]
    /\ UNCHANGED <<fs, writers, coDone, inVars, mgVars, cfVars>>

Poll(p) ==
    /\ loc[p].pc = "poll"
    /\ loc[p].i < n_repo_checks
    /\ LET good == git_repo_is_checkout_complete(
                        fs[loc[p].co_repo_fold], loc[p].co_commit_sha)
       IN  IF good
           THEN Set(p, [loc[p] EXCEPT !.co_good = TRUE,
                                      !.polls = Append(@, TRUE),
                                      !.ret = loc[p].co_repo_fold,
                                      !.pc = "returned"])
           ELSE Set(p, [loc[p] EXCEPT !.co_good = FALSE,
                                      !.polls = Append(@, FALSE),
                                      !.i = @ + 1,
                                      !.pc = IF loc[p].i + 1 < n_repo_checks
                                             THEN "poll" ELSE "fallback"])
    /\ UNCHANGED <<fs, writers, coDone>>
    /\ Frame

\* Waiting did not help (`if not co_good`): tempfile.mkdtemp creates a
\* directory that did not exist, in dir=co_repo_fold.parent, and it becomes
\* co_repo_fold.  fresh records that the directory was not there before.
\* Mutant: mkdtemp without dir=, the directory is made in the system's tmp.
Mkdtemp_InSystemTmp(p) ==
    /\ loc[p].pc = "fallback"
    /\ \E leaf \in 1 .. NProcs :
          LET path == [dir |-> SystemTmp, leaf |-> leaf]
          IN  /\ ~fs[path].exists
              /\ Modify(p, path, EmptyDir)
              /\ Set(p, [loc[p] EXCEPT !.co_repo_fold = path,
                                        !.fresh = ~fs[path].exists,
                                        !.ops = @ \cup {"mkdtemp"},
                                        !.pc = "mkdir"])
    /\ UNCHANGED <<coDone, inVars, mgVars, cfVars>>

Mkdtemp(p) ==
    /\ loc[p].pc = "fallback"
    /\ \E leaf \in 1 .. NProcs :
          LET path == [dir |-> Parent(loc[p].co_repo_fold), leaf |-> leaf]
          IN  /\ ~fs[path].exists
              /\ Modify(p, path, EmptyDir)
              /\ Set(p, [loc[p] EXCEPT !.co_repo_fold = path,
                                        !.fresh = ~fs[path].exists,
                                        !.ops = @ \cup {"mkdtemp"},
                                        !.pc = "mkdir"])
    /\ UNCHANGED coDone
    /\ Frame

(***************************************************************************)
(* git_repo_perform_checkout_and_postcmd, one filesystem step at a time.   *)
(***************************************************************************)
\* vst.mkdir(co_repo_fold): mkdir -p, an existing directory is left as it is.
Mkdir(p) ==
    /\ loc[p].pc = "mkdir"
    /\ IF ~fs[loc[p].co_repo_fold].exists
       THEN Modify(p, loc[p].co_repo_fold, EmptyDir)
       ELSE UNCHANGED <<fs, writers>>
    /\ Set(p, [loc[p] EXCEPT !.ops = @ \cup {"mkdir"}, !.pc = "clone"])
    /\ UNCHANGED coDone
    /\ Frame

\* repo.git.clone('--shared', '.', co_repo_fold): git refuses a destination
\* that exists and is not empty (GitCommandError); the clone's HEAD is the
\* source's.
\* Mutant: the clone goes into the directory whatever it holds.
GitClone_Force(p) ==
    /\ loc[p].pc = "clone"
    /\ Modify(p, loc[p].co_repo_fold,
              [fs[loc[p].co_repo_fold] EXCEPT !.head = src_head])
    /\ Set(p, [loc[p] EXCEPT !.ops = @ \cup {"clone"}, !.pc = "checkout"])
    /\ UNCHANGED <<coDone, inVars, mgVars, cfVars>>

GitClone(p) ==
    /\ loc[p].pc = "clone"
    /\ IF IsEmptyDir(fs[loc[p].co_repo_fold])
       THEN /\ Modify(p, loc[p].co_repo_fold,
                      [fs[loc[p].co_repo_fold] EXCEPT !.head = src_head])
            /\ Set(p, [loc[p] EXCEPT !.ops = @ \cup {"clone"},
                                      !.pc = "checkout"])
       ELSE /\ Set(p, [loc[p] EXCEPT !.pc = "raised",
                                      !.err = "GitCommandError"])
            /\ UNCHANGED <<fs, writers>>
    /\ UNCHANGED coDone
    /\ Frame

\* Where the code goes once sm submodules are cloned: on with the loop over
\* `git submodule status`, then `if post_cmd is not None`, else the marker.
\* Mutant: the marker is written before the post-command block.
AfterSubmodule_MarkerFirst(n) ==
    IF n < NSubmodules THEN "submodules" ELSE "touch"

AfterSubmodule(n) ==
    IF n < NSubmodules THEN "submodules"
    ELSE IF post_cmd THEN "post_cmd" ELSE "touch"

\* co_repo.git.checkout(commit_sha)
GitCheckout(p) ==
    /\ loc[p].pc = "checkout"
    /\ Modify(p, loc[p].co_repo_fold,
              [fs[loc[p].co_repo_fold] EXCEPT !.head = loc[p].co_commit_sha])
    /\ Set(p, [loc[p] EXCEPT !.ops = @ \cup {"checkout"},
                              !.pc = AfterSubmodule(loc[p].sm)])
    /\ UNCHANGED coDone
    /\ Frame

\* One pass of the loop over `git submodule status`: clone that submodule.
SubmoduleClone(p) ==
    /\ loc[p].pc = "submodules"
    /\ loc[p].sm < NSubmodules
    /\ Modify(p, loc[p].co_repo_fold,
              [fs[loc[p].co_repo_fold] EXCEPT !.subs = @ + 1])
    /\ Set(p, [loc[p] EXCEPT !.sm = @ + 1,
                              !.ops = @ \cup {"submodule"},
                              !.pc = AfterSubmodule(loc[p].sm + 1)])
    /\ UNCHANGED coDone
    /\ Frame

\* Where the code goes after a failed attempt number n of the post-command:
\* on to the next attempt, or out of the loop with post_output None, where
\* `if post_output is None: raise OSError`.
\* Mutant: `if post_output is None: raise` is lost.
AfterFailedTry_NoRaise(n) ==
    IF n + 1 < n_post_cmd_tries THEN "post_cmd" ELSE "touch"

AfterFailedTry(n) ==
    IF n + 1 < n_post_cmd_tries THEN "post_cmd" ELSE "raised"

\* One attempt of the post-command: success sets post_output and breaks the
\* loop, a CalledProcessError sleeps and goes on to the next attempt.
PostCmdTry(p) ==
    /\ loc[p].pc = "post_cmd"
    /\ loc[p].tries < n_post_cmd_tries
    /\ \/ /\ Modify(p, loc[p].co_repo_fold,
                      [fs[loc[p].co_repo_fold] EXCEPT !.post = TRUE])
          /\ Set(p, [loc[p] EXCEPT !.post_output = TRUE,
                                    !.postLog = Append(@, "ok"),
                                    !.ops = @ \cup {"post_cmd"},
                                    !.pc = "touch"])
       \/ /\ Set(p, [loc[p] EXCEPT
                        !.postLog = Append(@, "fail"),
                        !.ops = @ \cup {"post_cmd"},
                        !.tries = @ + 1,
                        !.pc = AfterFailedTry(loc[p].tries),
                        !.err = IF AfterFailedTry(loc[p].tries) = "raised"
                                THEN "OSError" ELSE @])
          /\ UNCHANGED <<fs, writers>>
    /\ UNCHANGED coDone
    /\ Frame

\* (co_repo_fold/'FINISHED').touch(), and `return co_repo_fold`, which
\* manage_code_checkout returns in turn.
Touch(p) ==
    /\ loc[p].pc = "touch"
    /\ Modify(p, loc[p].co_repo_fold,
              [fs[loc[p].co_repo_fold] EXCEPT !.finished = TRUE])
    /\ coDone' = [coDone EXCEPT ![loc[p].co_repo_fold] = @ + 1]
    /\ Set(p, [loc[p] EXCEPT !.ops = @ \cup {"touch"},
                              !.ret = loc[p].co_repo_fold,
                              !.pc = "returned"])
    /\ Frame

CoNext ==
    \E p \in Procs :
        \/ GetCommitShaRepo(p)
        \/ ManageCodeCheckout(p)
        \/ Poll(p)
        \/ Mkdtemp(p)
        \/ Mkdir(p)
        \/ GitClone(p)
        \/ GitCheckout(p)
        \/ SubmoduleClone(p)
        \/ PostCmdTry(p)
        \/ Touch(p)

(***************************************************************************)
(* Configuration fragments.  A value is a scalar or a mapping from keys to *)
(* values; the tag t tells which, as isinstance(x, dict) does.  A fragment *)
(* is a mapping; key a holds a scalar or a nested mapping over x and y,    *)
(* key b a scalar.                                                         *)
(***************************************************************************)
\* Fragments in the list passed to yml_list_merge.
MaxFrags == 2
\* The scalar leaves.
ScalarValues == {1, 2}
\* Characters of a string leaf after its first three.
MaxRest == 3
\* Depth of the deepest directory under the filesystem root.
MaxDepth == 4

EmptyMap == [key \in {} |-> 0]
Scalar(v) == [t |-> "scalar", v |-> v, m |-> EmptyMap]
Mapping(f) == [t |-> "map", v |-> 0, m |-> f]
IsDict(x) == x.t = "map"

\* The functions from a subset of K to V.
PartialFunctions(K, V) == UNION {[D -> V] : D \in SUBSET K}

Scalars == {Scalar(v) : v \in ScalarValues}
InnerKeys == {"x", "y"}
InnerMappings == {Mapping(f) : f \in PartialFunctions(InnerKeys, Scalars)}
Fragments ==
    {Mapping(fa @@ fb) :
        fa \in PartialFunctions({"a"}, Scalars \cup InnerMappings),
        fb \in PartialFunctions({"b"}, Scalars)}

(***************************************************************************)
(* gir_merge_dicts(user, default): when both are mappings, user takes the  *)
(* keys of default it lacks and merges recursively the ones it shares;     *)
(* user is returned, whatever it is.                                       *)
(***************************************************************************)
\* Mutant: a shallow update, user's value wins at every key it has.
gir_merge_dicts_Shallow(user, default) ==
    IF IsDict(user) /\ IsDict(default)
    THEN Mapping([key \in DOMAIN user.m \cup DOMAIN default.m |->
                    IF key \notin DOMAIN user.m THEN default.m[key]
                    ELSE user.m[key]])
    ELSE user

RECURSIVE gir_merge_dicts(_, _)
gir_merge_dicts(user, default) ==
    IF IsDict(user) /\ IsDict(default)
    THEN Mapping([key \in DOMAIN user.m \cup DOMAIN default.m |->
                    IF key \notin DOMAIN user.m THEN default.m[key]
                    ELSE IF key \in DOMAIN default.m
                         THEN gir_merge_dicts(user.m[key], default.m[key])
                         ELSE user.m[key]])
    ELSE user

\* copy.deepcopy(cfg): an equal value that shares nothing with cfg.
deepcopy(cfg) == cfg

(***************************************************************************)
(* yml_list_merge(cfgs): merged_cfg = {} and one pass of the loop per      *)
(* fragment, merged_cfg = gir_merge_dicts(copy.deepcopy(cfg), merged_cfg). *)
(***************************************************************************)
MgInit ==
    /\ cfgs \in [1 .. MaxFrags -> Fragments]
    /\ merged_cfg = Mapping(EmptyMap)
    /\ prev_cfg = Mapping(EmptyMap)
    /\ k = 0

YmlListMerge ==
    /\ k < Len(cfgs)
    /\ merged_cfg' = gir_merge_dicts(deepcopy(cfgs[k + 1]), merged_cfg)
    /\ prev_cfg' = merged_cfg
    /\ k' = k + 1
    /\ UNCHANGED <<cfgs, coVars, cfVars>>

\* The merge's variables while the checkout runs.
MgIdle ==
    /\ cfgs = <<>>
    /\ merged_cfg = Mapping(EmptyMap)
    /\ prev_cfg = Mapping(EmptyMap)
    /\ k = 0

\* The checkout's variables while the merge runs: no call is made.
CoIdle ==
    /\ co_commit = "RAW"
    /\ has_repo = FALSE
    /\ src_head = "c1"
    /\ post_cmd = FALSE
    /\ to_workfolder = FALSE
    /\ fs = [p \in Paths |-> AbsentDir]
    /\ loc = [p \in Procs |-> [LocInit EXCEPT !.pc = "idle"]]
    /\ writers = [p \in Paths |-> {}]
    /\ coDone = [p \in Paths |-> 0]

(***************************************************************************)
(* The configuration resolver of dervo/config.py.  A string is the         *)
(* sequence of its characters; a dotted key is the sequence of the keys    *)
(* that '.' joins (no key holds a '.').                                     *)
(***************************************************************************)
FILENAME_ROOT == "root_cfg.yml"
FILENAME_YML == "cfg.yml"
FILENAME_PY == "cfg.py"
\* filenames_cfg=[FILENAME_ROOT, FILENAME_YML]
filenames_cfg == {FILENAME_ROOT, FILENAME_YML}
Filenames == {FILENAME_ROOT, FILENAME_YML, FILENAME_PY}

\* The levels of the snake, 0 the shallowest directory.
Levels == 0 .. 1
\* The level the defaults are put at.
DefaultsLevel == 0 - 1

\* A leaf that is a str.
Str(s) == [t |-> "str", v |-> 0, m |-> EmptyMap, s |-> s]
IsStr(x) == x.t = "str"

NL == "\n"
NoMatch == <<"None">>

\* The longest prefix of s that holds no newline: what .+ matches of s.
RECURSIVE DotPlus(_)
DotPlus(s) ==
    IF s = <<>> \/ Head(s) = NL THEN <<>> ELSE <<Head(s)>> \o DotPlus(Tail(s))

(***************************************************************************)
(* re.match(TEMPLATE_PYEVAL, value).group(2) with TEMPLATE_PYEVAL =        *)
(* '(PY|py)@(.+)': the match is anchored at the start of value only, and   *)
(* . matches any character but a newline.  NoMatch when re.match is None.  *)
(***************************************************************************)
re_match(value) ==
    IF /\ Len(value) >= 4
       /\ <<value[1], value[2]>> \in {<<"P", "Y">>, <<"p", "y">>}
       /\ value[3] = "@"
       /\ value[4] # NL
    THEN DotPlus(SubSeq(value, 4, Len(value)))
    ELSE NoMatch

(***************************************************************************)
(* flatten_nested_dict(d, parent_key, '.'): the leaves of d under their    *)
(* dotted keys; a mapping is never a leaf, an empty one gives none.        *)
(***************************************************************************)
\* A dotted key is the sequence of the names between its separators:
\* key.split('.') of a key of a mapping.
split(key) == IF key = "a.x" THEN <<"a", "x">> ELSE <<key>>

RECURSIVE flatten_items(_, _)
flatten_items(d, parent_key) ==
    UNION {IF IsDict(d.m[key])
           THEN flatten_items(d.m[key], parent_key \o split(key))
           ELSE {<<parent_key \o split(key), d.m[key]>>} : key \in DOMAIN d.m}

flatten_nested_dict(d) ==
    LET items == flatten_items(d, <<>>)
    IN  [dot_key \in {item[1] : item \in items} |->
            (CHOOSE item \in items : item[1] = dot_key)[2]]

(***************************************************************************)
(* set_dd(d, key, value): walks d along the keys of the dotted key with    *)
(* setdefault(k, {}) and assigns value at the last one.  When the walk     *)
(* arrives at a value that is not a mapping, setdefault or the assignment  *)
(* raises (an int or a str takes neither): TypeError.                      *)
(***************************************************************************)
TypeError == [t |-> "TypeError"]

RECURSIVE set_dd(_, _, _)
set_dd(d, key, value) ==
    IF ~IsDict(d) THEN TypeError
    ELSE IF Len(key) = 1
    THEN Mapping((key[1] :> value) @@ d.m)
    ELSE LET dd == IF key[1] \in DOMAIN d.m THEN d.m[key[1]]
                   ELSE Mapping(EmptyMap)
             set == set_dd(dd, Tail(key), value)
         IN  IF set.t = "TypeError" THEN TypeError
             ELSE Mapping((key[1] :> set) @@ d.m)

(***************************************************************************)
(* yml_list_merge(cfgs) as a function of the list: the fold of the loop.   *)
(***************************************************************************)
\* Mutant: the loop starts at the second fragment.
RECURSIVE yml_list_merge_SkipsFirst(_)
yml_list_merge_SkipsFirst(list) ==
    IF Len(list) <= 1 THEN Mapping(EmptyMap)
    ELSE gir_merge_dicts(deepcopy(list[Len(list)]),
                         yml_list_merge_SkipsFirst(SubSeq(list, 1, Len(list) - 1)))

RECURSIVE yml_list_merge(_)
yml_list_merge(list) ==
    IF list = <<>> THEN Mapping(EmptyMap)
    ELSE gir_merge_dicts(deepcopy(list[Len(list)]),
                         yml_list_merge(SubSeq(list, 1, Len(list) - 1)))

(***************************************************************************)
(* The directories of the snake and what their files hold.                 *)
(***************************************************************************)
NoFile == [t |-> "nofile"]
\* The text of a cfg.py.
Script == [t |-> "script"]

py_ones == <<"p", "y", "@", "1", "+", "1">>
ones == <<"p", "y", "1", "+", "1">>
\* The leaves of the fragments: a number, a placeholder, a plain string.
LevelLeaves == {Scalar(1), Str(py_ones), Str(ones)}
LevelKeys == {"a"}
LevelInnerKeys == {"x"}
LevelFragments ==
    {Mapping(f) :
        f \in PartialFunctions(LevelKeys,
                LevelLeaves \cup
                {Mapping(g) : g \in PartialFunctions(LevelInnerKeys, LevelLeaves)})}

\* The dotted keys that a leaf of a fragment can have.
DotKeys == {<<"a">>, <<"a", "x">>}
\* pyeval_allowed_keys=None
None == {<<"None">>}
AllowLists == {None, {<<"a">>}, {<<"a", "x">>}}

\* The directory of level l, and a directory outside the snake.
Fold(l) == <<"fold", l>>
Elsewhere == <<"elsewhere">>

\* yml_load(DERVO_CFG_DEFAULTS): a mapping under one key that holds
\* scalars and mappings.
DERVO_CFG_DEFAULTS == Mapping("a" :> Mapping("x" :> Scalar(0)))

\* The value python computes for an expression of ones and plus signs.
RECURSIVE pyeval(_)
pyeval(expr) ==
    IF expr = <<>> THEN 0
    ELSE (IF Head(expr) = "1" THEN 1 ELSE 0) + pyeval(Tail(expr))

(***************************************************************************)
(* build_config_yml_py(path, pyeval_allowed_keys) on the snake of path.    *)
(***************************************************************************)
NoConfig == [t |-> "none"]

\* What each directory of the snake can hold: root_cfg.yml stops the
\* snake, so that only its first directory can have one.
LevelFiles(l) ==
    {files \in [Filenames -> LevelFragments \cup {NoFile, Script}] :
        /\ files[FILENAME_PY] \in {NoFile, Script}
        /\ files[FILENAME_YML] \in LevelFragments \cup {NoFile}
        /\ files[FILENAME_ROOT] \in
              IF l = 0 THEN LevelFragments \cup {NoFile} ELSE {NoFile}}

\* The locals of build_config_yml_py before its first statement.
RsLocals ==
    /\ cwd = Elsewhere
    /\ yml_configs = <<>>
    /\ pyeval_queries = <<>>
    /\ cwd_before = Elsewhere
    /\ cfg_script = <<>>
    /\ ip = 1
    /\ pyeval_updates = <<>>
    /\ yml_merged_config = NoConfig
    /\ execs = 0
    /\ loaded_configs = <<>>

RsStart == RsLocals /\ rpc = "start"

RsInit ==
    /\ tree \in {t \in [Levels -> UNION {LevelFiles(l) : l \in Levels}] :
                    \A l \in Levels : t[l] \in LevelFiles(l)}
    /\ pyeval_allowed_keys \in AllowLists
    /\ RsStart
    /\ runs = 0
    /\ first_config = NoConfig
    /\ first_loaded = <<>>

\* What a step of build_config_yml_py leaves alone.
RsFrame == UNCHANGED <<coVars, mgVars, asVars, hpVars, scVars, snVars, rtVars,
                     spVars>>

\* The orders in which a set of the two filenames can be iterated: the
\* order of a set of str changes with the hash seed of the process.
SetOrders ==
    {<<FILENAME_ROOT, FILENAME_YML>>, <<FILENAME_YML, FILENAME_ROOT>>}

\* cfgs.values() of one directory, its files taken in the given order.
LevelCfgs(files, order) ==
    LET present == SelectSeq(order, LAMBDA filename : files[filename] # NoFile)
    IN  [i \in 1 .. Len(present) |-> files[present[i]]]

\* _load_yml_from_snake(snake)
load_yml_from_snake(folds, order) ==
    [l \in {ll \in DOMAIN folds :
                \E filename \in filenames_cfg : folds[ll][filename] # NoFile}
        |-> yml_list_merge(LevelCfgs(folds[l], order))]

LoadYmlFromSnake ==
    /\ RsFrame
    /\ rpc = "start"
    /\ \E order \in SetOrders :
          yml_configs' = load_yml_from_snake(tree, order)
    /\ loaded_configs' = yml_configs'
    /\ first_loaded' = IF runs = 0 THEN yml_configs' ELSE first_loaded
    /\ rpc' = "loaded"
    /\ UNCHANGED <<rsInputs, cwd, pyeval_queries, cwd_before, cfg_script, ip,
                   pyeval_updates, yml_merged_config, execs, runs,
                   first_config>>

\* The queries of one fragment: dotted key -> text of the expression.
LevelQueries(yml_config) ==
    LET cf == flatten_nested_dict(yml_config)
        matching == {dot_key \in DOMAIN cf :
                        IsStr(cf[dot_key]) /\ re_match(cf[dot_key].s) # NoMatch}
    IN  [dot_key \in matching |-> re_match(cf[dot_key].s)]

\* Mutant: the allow-list is not applied.
find_pyeval_queries_Unfiltered(configs, allowed_keys) ==
    [l \in {ll \in DOMAIN configs : DOMAIN LevelQueries(configs[ll]) # {}}
        |-> LevelQueries(configs[l])]

\* Mutant: a query is dropped when a deeper level has a leaf at its key.
find_pyeval_queries_NotOverridden(configs, allowed_keys) ==
    LET kept(l) ==
            {dot_key \in DOMAIN LevelQueries(configs[l]) :
                /\ allowed_keys = None \/ dot_key \in allowed_keys
                /\ \A d \in DOMAIN configs :
                      d > l => dot_key \notin DOMAIN flatten_nested_dict(configs[d])}
    IN  [l \in {ll \in DOMAIN configs : kept(ll) # {}}
            |-> [dot_key \in kept(l) |-> LevelQueries(configs[l])[dot_key]]]

\* _find_pyeval_queries(yml_configs, pyeval_allowed_keys)
find_pyeval_queries(configs, allowed_keys) ==
    LET queries ==
            [l \in {ll \in DOMAIN configs :
                        DOMAIN LevelQueries(configs[ll]) # {}}
                |-> LevelQueries(configs[l])]
        queries_allowed ==
            [l \in {ll \in DOMAIN queries :
                        DOMAIN queries[ll] \cap allowed_keys # {}}
                |-> [dot_key \in DOMAIN queries[l] \cap allowed_keys |->
                        queries[l][dot_key]]]
    IN  IF allowed_keys = None THEN queries ELSE queries_allowed

FindPyevalQueries ==
    /\ RsFrame
    /\ rpc = "loaded"
    /\ pyeval_queries' = find_pyeval_queries(yml_configs, pyeval_allowed_keys)
    /\ rpc' = "queried"
    /\ UNCHANGED <<rsInputs, cwd, yml_configs, cwd_before, cfg_script, ip,
                   pyeval_updates, yml_merged_config, execs, loaded_configs,
                   runs, first_config, first_loaded>>

\* A statement of cfg_script: os.chdir to the directory of a level
\* (`_FOLD = Path(fold); os.chdir(_FOLD)`), the text of its cfg.py, or
\* the dict of its expressions (`_DRV_PYEVAL[lvl] = {...}`).
Stmt(kind, l) == [kind |-> kind, lvl |-> l]

\* Mutant: the expressions of a level are put before the text of its cfg.py.
lvl_script_QueriesFirst(files, queries, l) ==
    (IF l \in DOMAIN queries THEN <<Stmt("queries", l)>> ELSE <<>>)
    \o (IF files[l][FILENAME_PY] # NoFile THEN <<Stmt("script", l)>> ELSE <<>>)

\* lvl_script before the test `if len(lvl_script)`: the text of cfg.py
\* when the level has one, then the expressions when it has queries.
lvl_script(files, queries, l) ==
    (IF files[l][FILENAME_PY] # NoFile THEN <<Stmt("script", l)>> ELSE <<>>)
    \o (IF l \in DOMAIN queries THEN <<Stmt("queries", l)>> ELSE <<>>)

\* The loop over enumerate(snake.items()) from level l on: a level with a
\* lvl_script that is not empty gives the chdir and the lvl_script.  The
\* head of cfg_script, `_DRV_PYEVAL = {}`, is the start of pyeval_updates.
RECURSIVE assemble_cfg_script(_, _, _)
assemble_cfg_script(files, queries, l) ==
    IF l \notin Levels THEN <<>>
    ELSE (IF Len(lvl_script(files, queries, l)) > 0
          THEN <<Stmt("chdir", l)>> \o lvl_script(files, queries, l)
          ELSE <<>>)
         \o assemble_cfg_script(files, queries, l + 1)

\* Mutant: the early return `if not len(pyeval_queries)` is lost.
AssembleScript_AlwaysExec ==
    /\ RsFrame
    /\ rpc = "queried"
    /\ rpc' = "exec"
    /\ cfg_script' = assemble_cfg_script(tree, pyeval_queries, 0)
    /\ cwd_before' = cwd
    /\ execs' = execs + 1
    /\ UNCHANGED <<rsInputs, cwd, yml_configs, pyeval_queries, ip,
                   pyeval_updates, yml_merged_config, loaded_configs, runs,
                   first_config, first_loaded>>

\* _perform_pyeval_updates up to exec: it returns at once when there is no
\* query, else it assembles cfg_script and reads the working directory.
AssembleScript ==
    /\ RsFrame
    /\ rpc = "queried"
    /\ IF DOMAIN pyeval_queries = {}
       THEN /\ rpc' = "updated"
            /\ UNCHANGED <<cwd_before, cfg_script, execs>>
       ELSE /\ rpc' = "exec"
            /\ cfg_script' = assemble_cfg_script(tree, pyeval_queries, 0)
            /\ cwd_before' = cwd
            /\ execs' = execs + 1
    /\ UNCHANGED <<rsInputs, cwd, yml_configs, pyeval_queries, ip,
                   pyeval_updates, yml_merged_config, loaded_configs, runs,
                   first_config, first_loaded>>

\* set_dd(yml_config, dot_key, value) for each of the updates of one level.
RECURSIVE SetAll(_, _)
SetAll(yml_config, updates) ==
    IF DOMAIN updates = {} THEN yml_config
    ELSE LET dot_key == CHOOSE dk \in DOMAIN updates : TRUE
         IN  SetAll(set_dd(yml_config, dot_key, updates[dot_key]),
                    [dk \in DOMAIN updates \ {dot_key} |-> updates[dk]])

\* `for lvl, updates in pyeval_updates.items()`: set_dd on the fragment of
\* the level for each of its updates.
SetLevels(configs, updates) ==
    [l \in DOMAIN configs |->
        IF l \in DOMAIN updates THEN SetAll(configs[l], updates[l])
        ELSE configs[l]]

\* What a statement that does not raise does to the working directory and
\* to _DRV_PYEVAL.
StmtEffect(st) ==
    /\ cwd' = IF st.kind = "chdir" THEN Fold(st.lvl) ELSE cwd
    /\ pyeval_updates' =
          IF st.kind = "queries"
          THEN (st.lvl :> [dot_key \in DOMAIN pyeval_queries[st.lvl] |->
                  Scalar(pyeval(pyeval_queries[st.lvl][dot_key]))])
               @@ pyeval_updates
          ELSE pyeval_updates

\* Mutant: when a statement raises, the values evaluated so far are put
\* into the fragments before the exception leaves.
ExecStatement_SplicesOnRaise ==
    /\ RsFrame
    /\ rpc = "exec"
    /\ ip \in DOMAIN cfg_script
    /\ \E raises \in BOOLEAN :
          IF raises
          THEN /\ rpc' = "raised"
               /\ yml_configs' =
                     [l \in DOMAIN yml_configs |->
                         IF l \in DOMAIN pyeval_updates
                         THEN SetAll(yml_configs[l], pyeval_updates[l])
                         ELSE yml_configs[l]]
               /\ UNCHANGED <<ip, cwd, pyeval_updates>>
          ELSE /\ StmtEffect(cfg_script[ip])
               /\ ip' = ip + 1
               /\ UNCHANGED <<rpc, yml_configs>>
    /\ UNCHANGED <<rsInputs, pyeval_queries, cwd_before, cfg_script,
                   yml_merged_config, execs, loaded_configs, runs,
                   first_config, first_loaded>>

\* exec(code, cfg_scope), one statement of cfg_script after the other.  Any
\* statement can raise, and the exception leaves build_config_yml_py.
ExecStatement ==
    /\ RsFrame
    /\ rpc = "exec"
    /\ ip \in DOMAIN cfg_script
    /\ \E raises \in BOOLEAN :
          IF raises
          THEN /\ rpc' = "raised"
               /\ UNCHANGED <<ip, cwd, pyeval_updates>>
          ELSE /\ StmtEffect(cfg_script[ip])
               /\ ip' = ip + 1
               /\ UNCHANGED rpc
    /\ UNCHANGED <<rsInputs, yml_configs, pyeval_queries, cwd_before,
                   cfg_script, yml_merged_config, execs, loaded_configs,
                   runs, first_config, first_loaded>>

\* Mutant: every placeholder of every level is replaced by its value.
Splice_EveryPlaceholder ==
    /\ RsFrame
    /\ rpc = "exec"
    /\ ip \notin DOMAIN cfg_script
    /\ cwd' = cwd_before
    /\ yml_configs' =
          [l \in DOMAIN yml_configs |->
              SetAll(yml_configs[l],
                     [dot_key \in DOMAIN LevelQueries(yml_configs[l]) |->
                         Scalar(pyeval(LevelQueries(yml_configs[l])[dot_key]))])]
    /\ rpc' = "updated"
    /\ UNCHANGED <<rsInputs, pyeval_queries, cwd_before, cfg_script, ip,
                   pyeval_updates, yml_merged_config, execs, loaded_configs,
                   runs, first_config, first_loaded>>

\* After exec: os.chdir(cwd_before), then the values replace the
\* placeholders in the fragments of their levels.
Splice ==
    /\ RsFrame
    /\ rpc = "exec"
    /\ ip \notin DOMAIN cfg_script
    /\ cwd' = cwd_before
    /\ yml_configs' = SetLevels(yml_configs, pyeval_updates)
    /\ rpc' = "updated"
    /\ UNCHANGED <<rsInputs, pyeval_queries, cwd_before, cfg_script, ip,
                   pyeval_updates, yml_merged_config, execs, loaded_configs,
                   runs, first_config, first_loaded>>

\* Mutant: the fragments are merged deepest first.
RECURSIVE sorted_values_Descending(_, _)
sorted_values_Descending(configs, l) ==
    IF l \notin Levels \cup {DefaultsLevel} THEN <<>>
    ELSE sorted_values_Descending(configs, l + 1)
         \o (IF l \in DOMAIN configs THEN <<configs[l]>> ELSE <<>>)

\* dict(sorted(yml_configs.items())).values() from level l on.
RECURSIVE sorted_values(_, _)
sorted_values(configs, l) ==
    IF l \notin Levels \cup {DefaultsLevel} THEN <<>>
    ELSE (IF l \in DOMAIN configs THEN <<configs[l]>> ELSE <<>>)
         \o sorted_values(configs, l + 1)

\* yml_configs[-1] = yml_load(DERVO_CFG_DEFAULTS)
WithDefaults(configs) == (DefaultsLevel :> DERVO_CFG_DEFAULTS) @@ configs

\* The runs of the program: a second one follows the first.
Runs == {1, 2}

\* The defaults are added at level -1, the fragments sorted by level and
\* merged, and the merged configuration returned.
MergeAndReturn ==
    /\ RsFrame
    /\ rpc = "updated"
    /\ yml_merged_config' =
          yml_list_merge(sorted_values(WithDefaults(yml_configs), DefaultsLevel))
    /\ rpc' = "returned"
    /\ runs' = runs + 1
    /\ first_config' = IF runs = 0 THEN yml_merged_config' ELSE first_config
    /\ UNCHANGED <<rsInputs, cwd, yml_configs, pyeval_queries, cwd_before,
                   cfg_script, ip, pyeval_updates, execs, loaded_configs,
                   first_loaded>>

\* The program is run again on the same tree.
Rerun ==
    /\ RsFrame
    /\ rpc = "returned"
    /\ runs + 1 \in Runs
    /\ rpc' = "start"
    /\ cwd' = Elsewhere
    /\ yml_configs' = <<>>
    /\ pyeval_queries' = <<>>
    /\ cwd_before' = Elsewhere
    /\ cfg_script' = <<>>
    /\ ip' = 1
    /\ pyeval_updates' = <<>>
    /\ yml_merged_config' = NoConfig
    /\ execs' = 0
    /\ loaded_configs' = <<>>
    /\ UNCHANGED <<rsInputs, runs, first_config, first_loaded>>

RsNext ==
    \/ LoadYmlFromSnake
    \/ FindPyevalQueries
    \/ AssembleScript
    \/ ExecStatement
    \/ Splice
    \/ MergeAndReturn
    \/ Rerun

\* The resolver's variables while another part runs.
RsIdle ==
    /\ tree = [l \in Levels |-> [filename \in Filenames |-> NoFile]]
    /\ pyeval_allowed_keys = None
    /\ RsLocals
    /\ rpc = "idle"
    /\ runs = 0
    /\ first_config = NoConfig
    /\ first_loaded = <<>>

(***************************************************************************)
(* yml_list_merge on three fragments: the list [A, B, C] merged in one     *)
(* call, and [B, C] merged first and [A, that result] then.                *)
(***************************************************************************)
NotMerged == [t |-> "none"]

AsInit ==
    /\ abc \in [1 .. 3 -> Fragments]
    /\ merged_abc = NotMerged
    /\ merged_bc = NotMerged
    /\ merged_a_bc = NotMerged

AsFrame == UNCHANGED <<coVars, mgVars, rsVars, hpVars, scVars, snVars, rtVars,
                     spVars>>

MergeABC ==
    /\ merged_abc = NotMerged
    /\ merged_abc' = yml_list_merge(abc)
    /\ UNCHANGED <<abc, merged_bc, merged_a_bc>>
    /\ AsFrame

MergeBC ==
    /\ merged_abc # NotMerged
    /\ merged_bc = NotMerged
    /\ merged_bc' = yml_list_merge(<<abc[2], abc[3]>>)
    /\ UNCHANGED <<abc, merged_abc, merged_a_bc>>
    /\ AsFrame

MergeA_BC ==
    /\ merged_bc # NotMerged
    /\ merged_a_bc = NotMerged
    /\ merged_a_bc' = yml_list_merge(<<abc[1], merged_bc>>)
    /\ UNCHANGED <<abc, merged_abc, merged_bc>>
    /\ AsFrame

AsIdle ==
    /\ abc = <<>>
    /\ merged_abc = NotMerged
    /\ merged_bc = NotMerged
    /\ merged_a_bc = NotMerged

(***************************************************************************)
(* yml_list_merge on the objects of the interpreter.  The heap is the      *)
(* sequence of the dict objects; an object holds, under each key, a scalar *)
(* or the reference of another dict, so that two dicts can share a third   *)
(* and a change of the shared one shows in both.                           *)
(***************************************************************************)
Ref(id) == [t |-> "ref", id |-> id]
IsRef(x) == x.t = "ref"

\* The fragments of the lists merged on the heap.
HeapFragments ==
    {Mapping(fa) : fa \in PartialFunctions({"a"}, Scalars \cup InnerMappings)}

\* A new dict object with the content of the mapping d, the mappings in d
\* new objects too: [h |-> the heap after, r |-> the object].
RECURSIVE NewDict(_, _, _, _)
NewDict(h, d, keys, content) ==
    IF keys = {} THEN [h |-> Append(h, content), r |-> Len(h) + 1]
    ELSE LET key == CHOOSE x \in keys : TRUE
             v == d.m[key]
         IN  IF IsDict(v)
             THEN LET sub == NewDict(h, v, DOMAIN v.m, EmptyMap)
                  IN  NewDict(sub.h, d, keys \ {key},
                              content @@ (key :> Ref(sub.r)))
             ELSE NewDict(h, d, keys \ {key}, content @@ (key :> v))

\* The objects of a list of fragments: [h |-> heap, refs |-> their objects].
RECURSIVE NewDicts(_)
NewDicts(list) ==
    IF list = <<>> THEN [h |-> <<>>, refs |-> <<>>]
    ELSE LET front == NewDicts(SubSeq(list, 1, Len(list) - 1))
             last == list[Len(list)]
             new == NewDict(front.h, last, DOMAIN last.m, EmptyMap)
         IN  [h |-> new.h, refs |-> Append(front.refs, new.r)]

\* The mapping that object r of heap h holds, at every depth.
RECURSIVE Deref(_, _)
Deref(h, r) ==
    Mapping([key \in DOMAIN h[r] |->
                IF IsRef(h[r][key]) THEN Deref(h, h[r][key].id)
                ELSE h[r][key]])

\* Mutant: copy.copy, a new dict that shares the nested dicts of cfg.
copy_deepcopy_Shallow(h, r, keys, content) ==
    [h |-> Append(h, h[r]), r |-> Len(h) + 1]

\* copy.deepcopy(cfg): new objects for cfg and for every dict under it.
RECURSIVE copy_deepcopy(_, _, _, _)
copy_deepcopy(h, r, keys, content) ==
    IF keys = {} THEN [h |-> Append(h, content), r |-> Len(h) + 1]
    ELSE LET key == CHOOSE x \in keys : TRUE
             v == h[r][key]
         IN  IF IsRef(v)
             THEN LET sub == copy_deepcopy(h, v.id, DOMAIN h[v.id], EmptyMap)
                  IN  copy_deepcopy(sub.h, r, keys \ {key},
                                    content @@ (key :> Ref(sub.r)))
             ELSE copy_deepcopy(h, r, keys \ {key}, content @@ (key :> v))

\* gir_merge_dicts(user, default) on two dict objects, the loop over the
\* keys of default still to do: user[k] = v puts the object v itself in
\* user, user[k] = gir_merge_dicts(user[k], v) changes the object user[k].
RECURSIVE gir_merge_dicts_inplace(_, _, _, _)
gir_merge_dicts_inplace(h, user, default, keys) ==
    IF keys = {} THEN h
    ELSE LET key == CHOOSE x \in keys : TRUE
             v == h[default][key]
         IN  IF key \notin DOMAIN h[user]
             THEN gir_merge_dicts_inplace(
                      [h EXCEPT ![user] = (key :> v) @@ @],
                      user, default, keys \ {key})
             ELSE IF IsRef(h[user][key]) /\ IsRef(v)
             THEN gir_merge_dicts_inplace(
                      gir_merge_dicts_inplace(h, h[user][key].id, v.id,
                                              DOMAIN h[v.id]),
                      user, default, keys \ {key})
             ELSE gir_merge_dicts_inplace(h, user, default, keys \ {key})

\* set_dd(d, key, value) on the dict object d: setdefault(k, {}) along the
\* dotted key makes the dicts that miss, the last key is assigned.
RECURSIVE set_dd_inplace(_, _, _, _)
set_dd_inplace(h, d, key, value) ==
    IF Len(key) = 1 THEN [h EXCEPT ![d] = (key[1] :> value) @@ @]
    ELSE IF key[1] \in DOMAIN h[d]
    THEN set_dd_inplace(h, h[d][key[1]].id, Tail(key), value)
    ELSE set_dd_inplace(
             [Append(h, EmptyMap) EXCEPT ![d] = (key[1] :> Ref(Len(h) + 1)) @@ @],
             Len(h) + 1, Tail(key), value)

HpInit ==
    /\ \E list \in [1 .. MaxFrags -> HeapFragments] :
          /\ heap = NewDicts(list).h
          /\ cfg_refs = NewDicts(list).refs
          /\ input_cfgs = list
    /\ merged_ref = 0
    /\ hk = 0
    /\ spliced = FALSE

HpFrame == UNCHANGED <<coVars, mgVars, rsVars, asVars, scVars, snVars, rtVars,
                     spVars>>

\* merged_cfg = {}
HeapMergeStart ==
    /\ merged_ref = 0
    /\ heap' = Append(heap, EmptyMap)
    /\ merged_ref' = Len(heap) + 1
    /\ UNCHANGED <<cfg_refs, input_cfgs, hk, spliced>>
    /\ HpFrame

\* One pass of the loop:
\* merged_cfg = gir_merge_dicts(copy.deepcopy(cfg), merged_cfg)
HeapMergePass ==
    /\ merged_ref # 0
    /\ hk < Len(cfg_refs)
    /\ LET cfg == cfg_refs[hk + 1]
           copy == copy_deepcopy(heap, cfg, DOMAIN heap[cfg], EmptyMap)
       IN  /\ heap' = gir_merge_dicts_inplace(copy.h, copy.r, merged_ref,
                                              DOMAIN copy.h[merged_ref])
           /\ merged_ref' = copy.r
    /\ hk' = hk + 1
    /\ UNCHANGED <<cfg_refs, input_cfgs, spliced>>
    /\ HpFrame

\* The caller puts a value at the dotted key of a leaf of the result.
HeapSplice ==
    /\ hk = Len(cfg_refs)
    /\ ~spliced
    /\ \E dot_key \in DOMAIN flatten_nested_dict(Deref(heap, merged_ref)),
          value \in Scalars :
          heap' = set_dd_inplace(heap, merged_ref, dot_key, value)
    /\ spliced' = TRUE
    /\ UNCHANGED <<cfg_refs, input_cfgs, merged_ref, hk>>
    /\ HpFrame

HpIdle ==
    /\ heap = <<>>
    /\ cfg_refs = <<>>
    /\ input_cfgs = <<>>
    /\ merged_ref = 0
    /\ hk = 0
    /\ spliced = FALSE

(***************************************************************************)
(* _find_pyeval_queries on one fragment with one leaf, for the strings     *)
(* made of a start of at most three letters and signs and of a rest of at  *)
(* most MaxRest characters, and for a leaf that is not a str.              *)
(***************************************************************************)
\* The strings of at most n characters of the set chars.
RECURSIVE Strings(_, _)
Strings(chars, n) ==
    IF n = 0 THEN {<<>>}
    ELSE Strings(chars, n - 1) \cup
         {<<c>> \o s : c \in chars, s \in {t \in Strings(chars, n - 1) : Len(t) = n - 1}}

ScanStarts == Strings({"p", "y", "P", "Y", "@"}, 3)
ScanRests == Strings({"1", "+", NL}, MaxRest)
ScanLeaves ==
    {Scalar(1)} \cup {Str(start \o rest) : start \in ScanStarts, rest \in ScanRests}

NotScanned == <<"not scanned">>

ScInit ==
    /\ scan_leaf \in ScanLeaves
    /\ scan_key \in DotKeys
    /\ scan_queries = NotScanned

\* The fragment that holds the leaf at the dotted key.
ScanConfig ==
    IF Len(scan_key) = 1 THEN Mapping(scan_key[1] :> scan_leaf)
    ELSE Mapping(scan_key[1] :> Mapping(scan_key[2] :> scan_leaf))

ScFrame == UNCHANGED <<coVars, mgVars, rsVars, asVars, hpVars, snVars, rtVars,
                     spVars>>

Scan ==
    /\ scan_queries = NotScanned
    /\ scan_queries' = find_pyeval_queries(0 :> ScanConfig, None)
    /\ UNCHANGED <<scan_leaf, scan_key>>
    /\ ScFrame

ScIdle ==
    /\ scan_leaf = Scalar(1)
    /\ scan_key = <<"a">>
    /\ scan_queries = NotScanned

(***************************************************************************)
(* snake_create(path, stop_filename) of dervo/config.py and                *)
(* paternal_snake_query(path, filename) of dervo/experiment.py.  A         *)
(* directory is its depth under the filesystem root, which is 0; the       *)
(* parents of the directory at depth d are those at d - 1, ..., 0.         *)
(***************************************************************************)
Folds == 0 .. MaxDepth
\* The filenames a listing is made of.
ListedFilenames == {FILENAME_ROOT, FILENAME_YML}
NotReturned == <<"not returned">>
\* No directory is left to visit.
NoFold == 0 - 1

SnInit ==
    /\ listing \in [Folds -> SUBSET ListedFilenames]
    /\ snake_path \in Folds
    /\ fold = snake_path
    /\ snake_lst = <<>>
    /\ snake = NotReturned

SnFrame == UNCHANGED <<coVars, mgVars, rsVars, asVars, hpVars, scVars, rtVars,
                     spVars>>

\* Mutant: the test of the stop file comes before the append.
SnakeVisit_StopsBefore ==
    /\ snake = NotReturned
    /\ fold # NoFold
    /\ LET files == listing[fold]
       IN  IF FILENAME_ROOT \in files
           THEN fold' = NoFold /\ UNCHANGED snake_lst
           ELSE /\ snake_lst' = Append(snake_lst, <<fold, files>>)
                /\ fold' = fold - 1
    /\ UNCHANGED <<listing, snake_path, snake>>
    /\ SnFrame

\* One pass of the loop over itertools.chain([path], path.parents): the
\* directory is listed and appended, and the loop ends there when its
\* listing holds the stop file, else it goes on with the parent, if any.
SnakeVisit ==
    /\ snake = NotReturned
    /\ fold # NoFold
    /\ LET files == listing[fold]
       IN  /\ snake_lst' = Append(snake_lst, <<fold, files>>)
           /\ fold' = IF FILENAME_ROOT \in files THEN NoFold ELSE fold - 1
    /\ UNCHANGED <<listing, snake_path, snake>>
    /\ SnFrame

\* snake_lst[::-1]
Reversed(list) == [i \in 1 .. Len(list) |-> list[Len(list) + 1 - i]]

\* return dict(snake_lst[::-1]): the items of the dict, in its order.
SnakeReturn ==
    /\ snake = NotReturned
    /\ fold = NoFold
    /\ snake' = Reversed(snake_lst)
    /\ UNCHANGED <<listing, snake_path, fold, snake_lst>>
    /\ SnFrame

\* paternal_snake_query(path, filename) from the directory dir on: the
\* same loop, the list returned as it is, deepest first.
RECURSIVE paternal_snake_query(_, _, _)
paternal_snake_query(ls, dir, filename) ==
    IF dir = NoFold THEN <<>>
    ELSE <<<<dir, ls[dir]>>>> \o
         (IF filename \in ls[dir] THEN <<>>
          ELSE paternal_snake_query(ls, dir - 1, filename))

SnIdle ==
    /\ listing = [f \in Folds |-> {}]
    /\ snake_path = 0
    /\ fold = NoFold
    /\ snake_lst = <<>>
    /\ snake = NotReturned

(***************************************************************************)
(* The retry loops.  get_tags lists the tagged folders with                *)
(* path.glob('**/T@*') in `while True: try ... break / except OSError`;    *)
(* force_symlink makes the link in `for i in range(256): try ... break /   *)
(* except (FileExistsError, FileNotFoundError)`.  Whether an attempt fails *)
(* is the filesystem's choice.                                             *)
(***************************************************************************)
\* The failed listings after which the filesystem lets get_tags list.
MaxGlobTries == 3
\* range(256)
n_symlink_tries == 256

RtInit ==
    /\ get_tags_pc = "glob"
    /\ glob_fails = 0
    /\ symlink_pc = "start"
    /\ symlink_i = 0
    /\ symlink_made = FALSE

RtFrame == UNCHANGED <<coVars, mgVars, rsVars, asVars, hpVars, scVars, snVars,
                     spVars>>

\* One pass of `while True`: the listing succeeds and the loop breaks, or
\* it raises OSError, which is logged, and the loop goes on.
GetTagsGlob ==
    /\ get_tags_pc = "glob"
    /\ \/ /\ get_tags_pc' = "listed"
          /\ UNCHANGED glob_fails
       \/ /\ glob_fails < MaxGlobTries
          /\ glob_fails' = glob_fails + 1
          /\ UNCHANGED get_tags_pc
    /\ UNCHANGED <<symlink_pc, symlink_i, symlink_made>>
    /\ RtFrame

\* `if linkname.is_symlink()`: an existing link is resolved and asserted
\* to point to where; otherwise the loop is entered.
ForceSymlinkStart ==
    /\ symlink_pc = "start"
    /\ symlink_pc' \in {"returned", "AssertionError", "loop"}
    /\ UNCHANGED <<symlink_i, symlink_made, get_tags_pc, glob_fails>>
    /\ RtFrame

\* One pass of `for i in range(256)`: the link is made and the loop
\* breaks, or FileExistsError or FileNotFoundError is caught and logged
\* and the loop goes on with the next i; after the last pass the function
\* returns.
ForceSymlinkTry ==
    /\ symlink_pc = "loop"
    /\ symlink_i < n_symlink_tries
    /\ \/ /\ symlink_made' = TRUE
          /\ symlink_pc' = "returned"
          /\ UNCHANGED symlink_i
       \/ /\ symlink_i' = symlink_i + 1
          /\ symlink_pc' = IF symlink_i + 1 < n_symlink_tries
                           THEN "loop" ELSE "returned"
          /\ UNCHANGED symlink_made
    /\ UNCHANGED <<get_tags_pc, glob_fails>>
    /\ RtFrame

RtIdle ==
    /\ get_tags_pc = "idle"
    /\ glob_fails = 0
    /\ symlink_pc = "idle"
    /\ symlink_i = 0
    /\ symlink_made = FALSE

(***************************************************************************)
(* The splice on fragments whose keys can hold the separator: a yml key    *)
(* is any string, 'a.x' as well as 'a'.  _find_pyeval_queries names a leaf *)
(* by the dotted key of flatten_nested_dict and set_dd splits that key     *)
(* again.  A fragment that holds the same dotted key twice ('a.x' next to  *)
(* x under 'a') is left out: which of the two leaves flatten_nested_dict   *)
(* keeps follows their order in the file.                                  *)
(***************************************************************************)
SpLeaves == {Scalar(1), Str(py_ones)}
SpFragments ==
    {Mapping(f) :
        f \in {g \in PartialFunctions({"a", "b", "a.x"},
                        SpLeaves \cup {Mapping("x" :> v) : v \in SpLeaves}) :
                 /\ "b" \in DOMAIN g => g["b"] \in SpLeaves
                 /\ "a.x" \in DOMAIN g =>
                       /\ g["a.x"] \in SpLeaves
                       /\ "a" \in DOMAIN g => g["a"] \in SpLeaves}}

NotSpliced == <<"not spliced">>

SpInit ==
    /\ sp_configs \in [Levels -> SpFragments]
    /\ sp_spliced = NotSpliced
    /\ sp_pc = "start"

SpFrame == UNCHANGED <<coVars, mgVars, rsVars, asVars, hpVars, scVars, snVars,
                     rtVars>>

\* The values that exec leaves in _DRV_PYEVAL for the queries.
Evaluated(queries) ==
    [l \in DOMAIN queries |->
        [dot_key \in DOMAIN queries[l] |-> Scalar(pyeval(queries[l][dot_key]))]]

\* _perform_pyeval_updates(yml_configs, snake, None) with no cfg.py: the
\* queries are found and evaluated and their values are put into the
\* fragments; a TypeError of set_dd leaves the function.
PerformPyevalUpdates ==
    /\ sp_pc = "start"
    /\ LET updates == Evaluated(find_pyeval_queries(sp_configs, None))
           set == SetLevels(sp_configs, updates)
       IN  IF \E l \in DOMAIN set : set[l].t = "TypeError"
           THEN /\ sp_pc' = "TypeError"
                /\ UNCHANGED sp_spliced
           ELSE /\ sp_pc' = "updated"
                /\ sp_spliced' = set
    /\ UNCHANGED sp_configs
    /\ SpFrame

SpIdle ==
    /\ sp_configs = <<>>
    /\ sp_spliced = NotSpliced
    /\ sp_pc = "idle"

(***************************************************************************)
(* The specifications: one part of the program runs, the others do not.    *)
(***************************************************************************)
CfIdle == RsIdle /\ AsIdle /\ HpIdle /\ ScIdle /\ SnIdle /\ RtIdle /\ SpIdle

InitMerge == MgInit /\ CoIdle /\ CfIdle
NextMerge == YmlListMerge
SpecMerge == InitMerge /\ [][NextMerge]_vars

InitResolve ==
    RsInit /\ CoIdle /\ MgIdle /\ AsIdle /\ HpIdle /\ ScIdle /\ SnIdle
        /\ RtIdle /\ SpIdle
NextResolve == RsNext
SpecResolve == InitResolve /\ [][NextResolve]_vars

InitAssoc ==
    AsInit /\ CoIdle /\ MgIdle /\ RsIdle /\ HpIdle /\ ScIdle /\ SnIdle
        /\ RtIdle /\ SpIdle
NextAssoc == MergeABC \/ MergeBC \/ MergeA_BC
SpecAssoc == InitAssoc /\ [][NextAssoc]_vars

InitHeap ==
    HpInit /\ CoIdle /\ MgIdle /\ RsIdle /\ AsIdle /\ ScIdle /\ SnIdle
        /\ RtIdle /\ SpIdle
NextHeap == HeapMergeStart \/ HeapMergePass \/ HeapSplice
SpecHeap == InitHeap /\ [][NextHeap]_vars

InitScan ==
    ScInit /\ CoIdle /\ MgIdle /\ RsIdle /\ AsIdle /\ HpIdle /\ SnIdle
        /\ RtIdle /\ SpIdle
NextScan == Scan
SpecScan == InitScan /\ [][NextScan]_vars

InitSnake ==
    SnInit /\ CoIdle /\ MgIdle /\ RsIdle /\ AsIdle /\ HpIdle /\ ScIdle
        /\ RtIdle /\ SpIdle
NextSnake == SnakeVisit \/ SnakeReturn
SpecSnake == InitSnake /\ [][NextSnake]_vars

InitRetry ==
    RtInit /\ CoIdle /\ MgIdle /\ RsIdle /\ AsIdle /\ HpIdle /\ ScIdle
        /\ SnIdle /\ SpIdle
NextRetry == GetTagsGlob \/ ForceSymlinkStart \/ ForceSymlinkTry
SpecRetry == InitRetry /\ [][NextRetry]_vars

InitSplice ==
    SpInit /\ CoIdle /\ MgIdle /\ RsIdle /\ AsIdle /\ HpIdle /\ ScIdle
        /\ SnIdle /\ RtIdle
NextSplice == PerformPyevalUpdates
SpecSplice == InitSplice /\ [][NextSplice]_vars

Init == CoInit /\ MgIdle /\ CfIdle
Next == CoNext
Spec == Init /\ [][Next]_vars

\* The calls are running processes and each of their steps terminates: as
\* long as a call has a step to take, a step is taken.
SpecFair == Init /\ [][Next]_vars /\ WF_vars(Next)

(***************************************************************************)
(* Properties of the snapshot cache.                                       *)
(***************************************************************************)
\* The canonical sha of the revision asked for.
Sha == git_get_hexsha(co_commit, src_head)
\* The callers ask for a checkout of a revision that exists.
RevisionExists == has_repo /\ co_commit # "RAW" /\ Sha \in Commits
\* The alternate directories mkdtemp can create beside the destination.
Alternates == {path \in Paths : path.dir = Parent(Destination) /\ path.leaf # 0}
Ended(p) == loc[p].pc \in {"returned", "raised"}
Fails(log) == {j \in 1 .. Len(log) : log[j] = "fail"}
\* Directory d holds a full checkout of sha: the clone at the revision, every
\* submodule, and the post-command when one is configured.
FullCheckout(d, sha) ==
    /\ d.exists
    /\ d.head = sha
    /\ d.subs = NSubmodules
    /\ post_cmd => d.post

\* C1: for any interleaving of the callers' filesystem steps, no call raises
\* because of the other callers' activity: a call that raised either asked
\* for a revision that does not resolve (BadName) or ran out of post-command
\* attempts in its own checkout (OSError); the clone never fails on a
\* directory another caller filled (GitCommandError).
C1_ContentionNeverRaises ==
    \A p \in Procs :
        loc[p].pc = "raised" => loc[p].err \in {"BadName", "OSError"}

\* C2: when the revision exists and no post-command attempt failed, then once
\* every call has ended, every call has returned a path, and the directory at
\* that path has its HEAD at exactly the revision asked for.
C2_BothReturnAtRevision ==
    ( /\ RevisionExists
      /\ \A p \in Procs : Ended(p) /\ Fails(loc[p].postLog) = {} )
    => \A p \in Procs :
          /\ loc[p].pc = "returned"
          /\ loc[p].ret \in Paths
          /\ fs[loc[p].ret].head = Sha

C4_PostCmdBoundedThenFatal ==
    \A p \in Procs :
        LET log == loc[p].postLog
        IN  /\ Len(log) <= n_post_cmd_tries
            /\ \A j \in 1 .. Len(log) - 1 : log[j] = "fail"
            /\ (Len(log) > 0) => post_cmd
            /\ (Len(log) = n_post_cmd_tries /\ Fails(log) = DOMAIN log)
                  => /\ loc[p].pc = "raised"
                     /\ loc[p].err = "OSError"
                     /\ loc[p].ret = NoPath
                     /\ ~fs[loc[p].co_repo_fold].finished

\* C4 witness: a call has failed every attempt and raised, and another call
\* has since run to its end.
C4_Witness ==
    \E p, q \in Procs :
        /\ p # q
        /\ loc[p].postLog = <<"fail", "fail">>
        /\ loc[p].pc = "raised"
        /\ loc[q].pc = "returned"
        /\ "touch" \in loc[q].ops

\* C5: when the requested revision does not resolve, no directory exists at
\* or beside the deterministic path in any state, a call that has run has
\* raised BadName having run no filesystem operation, and a call that has
\* raised takes no further step (no retry).
C5_BadRevisionFailsFirst ==
    /\ []( (has_repo /\ co_commit # "RAW" /\ Sha \notin Commits)
            => /\ \A path \in Paths : ~fs[path].exists
               /\ \A p \in Procs :
                     /\ loc[p].pc \in {"start", "raised"}
                     /\ loc[p].pc = "raised" => loc[p].err = "BadName"
                     /\ loc[p].ops = {}
                     /\ loc[p].ret = NoPath )
    /\ [][\A p \in Procs : loc[p].pc = "raised" => loc'[p] = loc[p]]_vars

\* C5 witness: every call for the revision that does not resolve has raised
\* BadName.
C5_Witness ==
    /\ has_repo
    /\ co_commit = "nosuch"
    /\ \A p \in Procs : loc[p].pc = "raised" /\ loc[p].err = "BadName"

\* C6: a call that found the deterministic path existing and, at one of its
\* polls, complete (valid repository, HEAD at the revision, FINISHED marker)
\* has returned the deterministic path itself, has run no mkdir, clone,
\* checkout, post-command or mkdtemp, and has changed no directory.
C6_GoodPollReturnsDestination ==
    \A p \in Procs :
        (\E j \in 1 .. Len(loc[p].polls) : loc[p].polls[j])
        => /\ loc[p].pc = "returned"
           /\ loc[p].ret = Destination
           /\ loc[p].ops = {}
           /\ \A path \in Paths : p \notin writers[path]
           /\ git_repo_is_checkout_complete(fs[Destination], Sha)

\* C6 witness: a call returned the deterministic path on its second poll,
\* after a first poll that found it incomplete.
C6_Witness ==
    \E p \in Procs :
        /\ loc[p].polls = <<FALSE, TRUE>>
        /\ loc[p].ret = Destination

\* C7: a call whose n_repo_checks polls all found the existing deterministic
\* directory not complete never changes that directory; the directory
\* mkdtemp gave it did not exist before and is a sibling of the
\* deterministic path; and when the call has returned, it returned that
\* alternate path, which holds a full checkout with the FINISHED marker
\* made by this call.
C7_ExhaustedPollsFallBack ==
    \A p \in Procs :
        (Len(loc[p].polls) = n_repo_checks /\ ~loc[p].co_good)
        => /\ p \notin writers[Destination]
           /\ "mkdtemp" \in loc[p].ops
                 => /\ loc[p].fresh
                    /\ loc[p].co_repo_fold # Destination
                    /\ Parent(loc[p].co_repo_fold) = Parent(Destination)
                    /\ fs[loc[p].co_repo_fold].exists
           /\ loc[p].pc = "returned"
                 => /\ loc[p].ret \in Alternates
                    /\ loc[p].ret = loc[p].co_repo_fold
                    /\ {"mkdtemp", "clone", "checkout", "touch"} \subseteq loc[p].ops
                    /\ FullCheckout(fs[loc[p].ret], Sha)
                    /\ fs[loc[p].ret].finished
                    /\ writers[loc[p].ret] = {p}

\* C7 witness: a call polled twice in vain and returned an alternate
\* directory while the deterministic one is still without marker.
C7_Witness ==
    \E p \in Procs :
        /\ loc[p].polls = <<FALSE, FALSE>>
        /\ loc[p].pc = "returned"
        /\ loc[p].ret \in Alternates
        /\ fs[Destination].exists
        /\ ~fs[Destination].finished

\* C8: under any interleaving, at most one of the concurrent calls ever
\* changes the deterministic directory (creates it, clones into it, marks
\* it); every other call only reads it.
C8_DestinationHasOneWriter ==
    Cardinality(writers[Destination]) <= 1

\* The full checkouts completed so far, over all directories.
RECURSIVE SumDone(_)
SumDone(S) ==
    IF S = {} THEN 0
    ELSE LET path == CHOOSE x \in S : TRUE
         IN  coDone[path] + SumDone(S \ {path})

\* C9 as stated: over all calls, earlier and concurrent, at most one full
\* checkout of the revision is ever performed.
C9_AtMostOneCheckout ==
    SumDone(Paths) <= 1

\* C9 amended: no directory is materialized twice: the deterministic
\* directory and each alternate directory receive at most one full checkout,
\* and each call performs at most one; calls that fall back add checkouts
\* in alternate directories, at most one per call.
C9_AtMostOncePerDirectory ==
    /\ \A path \in Paths : coDone[path] <= 1
    /\ SumDone(Alternates) <= NProcs
    /\ \A path \in Alternates :
          coDone[path] = 1 => Cardinality(writers[path]) = 1

\* C9 witness: the revision has been materialized twice, once in the
\* deterministic directory and once in an alternate one.
C9_Witness ==
    /\ coDone[Destination] = 1
    /\ \E path \in Alternates : coDone[path] = 1

\* C21: when the revision asked for is RAW and the code is not copied to
\* the workfolder, no checkout is performed: no directory exists under the
\* checkout root in any state, no call runs a mkdir, a clone, a checkout or
\* a post-command, no call raises, and a call that has returned has
\* returned code_root itself.
C21_RawMeansNoCheckout ==
    (co_commit = "RAW" /\ ~to_workfolder) =>
        /\ \A path \in Paths :
              /\ ~fs[path].exists
              /\ writers[path] = {}
              /\ coDone[path] = 0
        /\ \A p \in Procs :
              /\ loc[p].pc \in {"start", "manage", "returned"}
              /\ loc[p].co_commit_sha \in {NoSha, "RAW"}
              /\ loc[p].ops = {}
              /\ loc[p].postLog = <<>>
              /\ loc[p].pc = "returned" => loc[p].ret = CodeRoot

\* C21 witness: in a repository, with a post-command configured, every call
\* for RAW has returned code_root.
C21_Witness ==
    /\ co_commit = "RAW"
    /\ ~to_workfolder
    /\ has_repo
    /\ post_cmd
    /\ \A p \in Procs : loc[p].pc = "returned" /\ loc[p].ret = CodeRoot

C24_CheckoutTerminates ==
    /\ [](\A p \in Procs :
            /\ Len(loc[p].polls) <= n_repo_checks
            /\ loc[p].i <= n_repo_checks
            /\ Len(loc[p].postLog) <= n_post_cmd_tries
            /\ loc[p].tries <= n_post_cmd_tries)
    /\ <>[](\A p \in Procs : Ended(p))

\* C24 witness: a call checked the deterministic directory n_repo_checks
\* times in vain, tried the post-command n_post_cmd_tries times in vain in
\* its alternate directory and has raised, while the deterministic
\* directory is still incomplete.
C24_Witness ==
    \E p \in Procs :
        /\ Len(loc[p].polls) = n_repo_checks
        /\ Len(loc[p].postLog) = n_post_cmd_tries
        /\ Ended(p)
        /\ loc[p].co_repo_fold \in Alternates
        /\ ~fs[Destination].finished

(***************************************************************************)
(* Properties of the deep merge.                                           *)
(***************************************************************************)
\* The values the merge rule gives at key, for the current merged mapping
\* cur and the incoming mapping inc, stated one level at a time: two
\* mappings are merged key by key, the incoming leaf winning where both
\* define it; anything else is replaced by the incoming value; a key only
\* one of them has keeps its value.
MergedAt(cur, inc, key) ==
    IF key \in DOMAIN cur /\ key \in DOMAIN inc
    THEN IF IsDict(cur[key]) /\ IsDict(inc[key])
         THEN Mapping([ik \in DOMAIN cur[key].m \cup DOMAIN inc[key].m |->
                         IF ik \in DOMAIN inc[key].m
                         THEN inc[key].m[ik] ELSE cur[key].m[ik]])
         ELSE inc[key]
    ELSE IF key \in DOMAIN inc THEN inc[key] ELSE cur[key]

ExA_x1 == Mapping("a" :> Mapping("x" :> Scalar(1)))
ExA_y2 == Mapping("a" :> Mapping("y" :> Scalar(2)))
ExA_x1y2 == Mapping("a" :> Mapping(("x" :> Scalar(1)) @@ ("y" :> Scalar(2))))
ExA_1 == Mapping("a" :> Scalar(1))

\* C10: after each pass of the loop, merged_cfg has the keys of the current
\* merged mapping and of the incoming fragment; at a key where both hold
\* mappings these are merged recursively, in every other case the incoming
\* value replaces the current one entirely (a scalar a mapping, a mapping a
\* scalar), and a key only one of them has is kept.  {a:{x:1}} then
\* {a:{y:2}} gives {a:{x:1,y:2}}; {a:1} then {a:{y:2}} gives {a:{y:2}}.
C10_MergeRulePerKey ==
    /\ k >= 1
          => /\ IsDict(merged_cfg)
             /\ DOMAIN merged_cfg.m = DOMAIN prev_cfg.m \cup DOMAIN cfgs[k].m
             /\ \A key \in DOMAIN merged_cfg.m :
                   merged_cfg.m[key] = MergedAt(prev_cfg.m, cfgs[k].m, key)
    /\ (k = 2 /\ cfgs[1] = ExA_x1 /\ cfgs[2] = ExA_y2) => merged_cfg = ExA_x1y2
    /\ (k = 2 /\ cfgs[1] = ExA_1 /\ cfgs[2] = ExA_y2) => merged_cfg = ExA_y2

\* C10 witness: {a:{x:1}} then {a:{y:2}} have been merged into a mapping
\* that holds both x and y under a.
C10_Witness ==
    /\ k = 2
    /\ cfgs[1] = ExA_x1
    /\ cfgs[2] = ExA_y2
    /\ DOMAIN merged_cfg.m["a"].m = {"x", "y"}

(***************************************************************************)
(* Properties of the configuration resolver.                               *)
(***************************************************************************)
\* The levels, the defaults' included, whose fragment has a leaf at dot_key.
LevelsDefining(configs, dot_key) ==
    {l \in DOMAIN configs : dot_key \in DOMAIN flatten_nested_dict(configs[l])}
\* The deepest of a set of levels.
Deepest(ls) == CHOOSE l \in ls : \A other \in ls : other <= l

\* C11: the defaults are merged first, then the levels from the shallowest
\* to the deepest: every leaf of the configuration returned has the value
\* that the deepest fragment with a leaf at its dotted key gives it, and the
\* defaults give it only where no level has a leaf at that key.
C11_DeepestFragmentWins ==
    rpc = "returned" =>
        LET configs == WithDefaults(yml_configs)
            merged == flatten_nested_dict(yml_merged_config)
        IN  \A dot_key \in DOMAIN merged :
                LET defining == LevelsDefining(configs, dot_key)
                IN  /\ defining # {}
                    /\ merged[dot_key] =
                          flatten_nested_dict(configs[Deepest(defining)])[dot_key]
                    /\ Deepest(defining) = DefaultsLevel
                          <=> LevelsDefining(yml_configs, dot_key) = {}

\* C11 witness: both levels and the defaults give a.x, each another value,
\* and the configuration is returned.
C11_Witness ==
    /\ rpc = "returned"
    /\ LevelsDefining(WithDefaults(yml_configs), <<"a", "x">>)
          = Levels \cup {DefaultsLevel}
    /\ yml_configs[0].m["a"].m["x"] = Scalar(1)
    /\ yml_configs[1].m["a"].m["x"] = Str(ones)
    /\ <<"a", "x">> \in DOMAIN flatten_nested_dict(yml_merged_config)

\* Some key holds a scalar in B where A and C both hold mappings.
RECURSIVE ScalarBetweenMappings(_, _, _)
ScalarBetweenMappings(A, B, C) ==
    \E key \in DOMAIN A.m \cap DOMAIN B.m \cap DOMAIN C.m :
        /\ IsDict(A.m[key])
        /\ IsDict(C.m[key])
        /\ \/ ~IsDict(B.m[key])
           \/ ScalarBetweenMappings(A.m[key], B.m[key], C.m[key])

\* C12 as stated: for any three fragments A, B, C, also where a key holds
\* a mapping in one and a scalar in another, yml_list_merge([A, B, C])
\* equals yml_list_merge([A, yml_list_merge([B, C])]).
C12_MergeIsAssociative ==
    merged_a_bc # NotMerged => merged_abc = merged_a_bc

\* C12 amended: yml_list_merge([A, B, C]) equals
\* yml_list_merge([A, yml_list_merge([B, C])]) for any three fragments in
\* which no key holds a scalar in B where A and C both hold mappings.
C12_AssociativeWithoutScalarBetween ==
    (merged_a_bc # NotMerged /\ ~ScalarBetweenMappings(abc[1], abc[2], abc[3]))
        => merged_abc = merged_a_bc

\* C12 witness: A, B and C hold mappings under a with keys in common and
\* have been merged both ways.
C12_Witness ==
    /\ merged_a_bc # NotMerged
    /\ abc[1] = Mapping("a" :> Mapping(("x" :> Scalar(1)) @@ ("y" :> Scalar(1))))
    /\ abc[2] = Mapping(("a" :> Mapping("x" :> Scalar(2))) @@ ("b" :> Scalar(1)))
    /\ abc[3] = Mapping("a" :> Mapping("y" :> Scalar(2)))
    /\ merged_abc = merged_a_bc

\* C13: yml_list_merge leaves every fragment of its list as it was: at
\* any moment of the merge and after it, and after the caller has spliced
\* a value into the merged result, each input object holds, at every
\* depth, what it held at the call.
C13_InputsUnchanged ==
    \A i \in 1 .. Len(cfg_refs) : Deref(heap, cfg_refs[i]) = input_cfgs[i]

\* What yml_list_merge returns is the merge of the values of its list.
MergedValueIsTheFold ==
    (hk = Len(cfg_refs) /\ ~spliced /\ merged_ref # 0)
        => Deref(heap, merged_ref) = yml_list_merge(input_cfgs)

\* C13 witness: two fragments with mappings under a have been merged into
\* a mapping with the keys of both, and the caller has changed a leaf of
\* the result under a.
C13_Witness ==
    /\ spliced
    /\ Len(input_cfgs) >= 2
    /\ input_cfgs[1] = ExA_x1
    /\ input_cfgs[2] = ExA_y2
    /\ Deref(heap, merged_ref) # ExA_x1y2

\* What a configuration holds at a dotted key.
NoValue == [t |-> "novalue"]
RECURSIVE ValueAt(_, _)
ValueAt(config, dot_key) ==
    IF dot_key = <<>> THEN config
    ELSE IF IsDict(config) /\ Head(dot_key) \in DOMAIN config.m
    THEN ValueAt(config.m[Head(dot_key)], Tail(dot_key))
    ELSE NoValue

\* C14: when build_config_yml_py has returned, for every query that was
\* evaluated (a dotted key and an expression at a level) the configuration
\* returned holds at that dotted key the value computed for the
\* expression, not the placeholder.
C14_EvaluatedValueReturned ==
    rpc = "returned" =>
        \A l \in DOMAIN pyeval_updates :
            \A dot_key \in DOMAIN pyeval_updates[l] :
                ValueAt(yml_merged_config, dot_key) = pyeval_updates[l][dot_key]

\* The value is a string of the form (PY|py)@<expression>: PY or py, then
\* @, then an expression, a text that is not made of line breaks only.
MatchesTemplate(value) ==
    /\ IsStr(value)
    /\ Len(value.s) >= 4
    /\ SubSeq(value.s, 1, 3) \in {<<"P", "Y", "@">>, <<"p", "y", "@">>}
    /\ \E i \in 4 .. Len(value.s) : value.s[i] # NL
\* The text after the '@' of the template.
TextAfterAt(value) == SubSeq(value.s, 4, Len(value.s))

\* C15: the scan of a fragment gives a query for a leaf exactly when the
\* leaf is a string of the form (PY|py)@<expression>; the query is under
\* the level of the fragment and the dotted key of the leaf, and its
\* expression is exactly the text after the '@'.  A leaf that is not a
\* string, py1+1 and Py@1 give no query.
C15_QueryIffTemplateAndExactText ==
    scan_queries # NotScanned =>
        /\ MatchesTemplate(scan_leaf)
              <=> (0 \in DOMAIN scan_queries /\ scan_key \in DOMAIN scan_queries[0])
        /\ MatchesTemplate(scan_leaf)
              => /\ DOMAIN scan_queries = {0}
                 /\ DOMAIN scan_queries[0] = {scan_key}
                 /\ scan_queries[0][scan_key] = TextAfterAt(scan_leaf)
        /\ ~MatchesTemplate(scan_leaf) => scan_queries = <<>>

\* The dotted keys of the placeholders of a fragment that are in the
\* allow-list.
AllowedPlaceholders(yml_config, allowed_keys) ==
    {dot_key \in DOMAIN flatten_nested_dict(yml_config) \cap allowed_keys :
        MatchesTemplate(flatten_nested_dict(yml_config)[dot_key])}

\* C16: with an allow-list of dotted keys, the queries the scan returns
\* are exactly the placeholders whose dotted key is in the allow-list, each
\* under the level where it was found, a level with none of them is left
\* out, and no expression of a key outside the allow-list is evaluated.
C16_OnlyAllowedQueries ==
    (pyeval_allowed_keys # None /\ rpc \notin {"idle", "start", "loaded"}) =>
        /\ DOMAIN pyeval_queries =
              {l \in DOMAIN loaded_configs :
                  AllowedPlaceholders(loaded_configs[l], pyeval_allowed_keys) # {}}
        /\ \A l \in DOMAIN pyeval_queries :
              /\ DOMAIN pyeval_queries[l] =
                    AllowedPlaceholders(loaded_configs[l], pyeval_allowed_keys)
              /\ \A dot_key \in DOMAIN pyeval_queries[l] :
                    pyeval_queries[l][dot_key] =
                        TextAfterAt(flatten_nested_dict(loaded_configs[l])[dot_key])
        /\ \A l \in DOMAIN pyeval_updates :
              DOMAIN pyeval_updates[l] \subseteq pyeval_allowed_keys

\* C16 witness: a.x is allowed; level 0 has a placeholder at a.x and level
\* 1 one at a; the query of level 0 alone was evaluated and the
\* configuration is returned.
C16_Witness ==
    /\ rpc = "returned"
    /\ pyeval_allowed_keys = {<<"a", "x">>}
    /\ DOMAIN loaded_configs = Levels
    /\ loaded_configs[0] = Mapping("a" :> Mapping("x" :> Str(py_ones)))
    /\ loaded_configs[1] = Mapping("a" :> Str(py_ones))
    /\ DOMAIN pyeval_updates = {0}

\* No fragment of the tree holds a placeholder.
NoPlaceholders ==
    \A l \in Levels, filename \in filenames_cfg :
        tree[l][filename] # NoFile =>
            \A dot_key \in DOMAIN flatten_nested_dict(tree[l][filename]) :
                ~MatchesTemplate(flatten_nested_dict(tree[l][filename])[dot_key])

\* C18: on an unchanged tree whose fragments hold no placeholder, the
\* second run of build_config_yml_py from the same start returns the same
\* configuration as the first, whatever files each level holds.
C18_RerunReturnsTheSame ==
    (rpc = "returned" /\ runs = 2 /\ NoPlaceholders)
        => yml_merged_config = first_config

\* exec has been called and has ended, by its last statement or by an
\* exception.
EvaluationEnded == execs > 0 /\ rpc \in {"raised", "updated", "returned"}

\* C19: when the evaluation of the script has ended, by its last
\* statement or by an exception raised in it, the working directory of the
\* process is the one it was just before the evaluation started.
C19_CwdRestoredOnAllExits ==
    EvaluationEnded => cwd = cwd_before

\* C20: when a statement of the script raises, the resolution fails with
\* it: no configuration is returned, the fragments of the levels hold no
\* evaluated value, exec was called once, and nothing more is done.
C20_RaiseFailsTheResolution ==
    /\ [](rpc = "raised" =>
            /\ yml_merged_config = NoConfig
            /\ yml_configs = loaded_configs
            /\ execs = 1)
    /\ [][rpc = "raised" => UNCHANGED rsVars]_vars

\* C20 witness: the expression of level 0 was evaluated, then a statement
\* of level 1 raised.
C20_Witness ==
    /\ rpc = "raised"
    /\ cfg_script[ip].lvl = 1
    /\ DOMAIN pyeval_updates = {0}

\* The place of a statement in the script of its level.
KindRank(kind) ==
    IF kind = "chdir" THEN 0 ELSE IF kind = "script" THEN 1 ELSE 2
\* The statements of cfg_script that level l gives.
StmtsOf(l) == {cfg_script[i] : i \in {j \in DOMAIN cfg_script : cfg_script[j].lvl = l}}
\* The statements exec has run.
Executed == {cfg_script[i] : i \in 1 .. ip - 1}

\* C22: in the script assembled, every statement of a shallower level
\* comes before every statement of a deeper one; a level gives the chdir
\* to its directory first, then the text of its cfg.py if it has one, then
\* its expressions if it has queries, each once, and a level with neither
\* gives nothing.  When exec comes to the expressions of a level, the
\* working directory is that level's directory, the cfg.py texts of that
\* level and of the shallower ones have run and those of the deeper levels
\* have not.
C22_StatementsInLevelOrder ==
    rpc \in {"exec", "raised"} =>
        /\ \A i, j \in DOMAIN cfg_script :
              i < j =>
                 \/ cfg_script[i].lvl < cfg_script[j].lvl
                 \/ /\ cfg_script[i].lvl = cfg_script[j].lvl
                    /\ KindRank(cfg_script[i].kind) < KindRank(cfg_script[j].kind)
        /\ \A l \in Levels :
              LET has_py == tree[l][FILENAME_PY] # NoFile
                  has_queries == l \in DOMAIN pyeval_queries
              IN  StmtsOf(l) =
                     (IF has_py THEN {Stmt("script", l)} ELSE {})
                     \cup (IF has_queries THEN {Stmt("queries", l)} ELSE {})
                     \cup (IF has_py \/ has_queries
                           THEN {Stmt("chdir", l)} ELSE {})
        /\ DOMAIN pyeval_updates =
              {st.lvl : st \in {e \in Executed : e.kind = "queries"}}
        /\ (rpc = "exec" /\ ip \in DOMAIN cfg_script
               /\ cfg_script[ip].kind = "queries") =>
              /\ cwd = Fold(cfg_script[ip].lvl)
              /\ \A l \in Levels :
                    tree[l][FILENAME_PY] # NoFile =>
                       (Stmt("script", l) \in Executed <=> l <= cfg_script[ip].lvl)

\* C22 witness: both levels have a cfg.py and a query, and exec has come
\* to the expressions of the deeper level, the sixth statement.
C22_Witness ==
    /\ rpc = "exec"
    /\ Len(cfg_script) = 6
    /\ ip = 6
    /\ cfg_script[ip] = Stmt("queries", 1)
    /\ DOMAIN pyeval_updates = {0}

\* C23: in one resolution exec is called once when a query is left after
\* the allow-list, and never when none is left: then, whatever cfg.py
\* files the levels have, no script is assembled, no statement is run, the
\* working directory stays what it was, and the resolution cannot raise.
C23_ExecutedOnceIffQueries ==
    /\ execs <= 1
    /\ rpc \in {"exec", "raised", "updated", "returned"} =>
          execs = IF DOMAIN pyeval_queries # {} THEN 1 ELSE 0
    /\ (rpc \notin {"idle", "start", "loaded"} /\ DOMAIN pyeval_queries = {}) =>
          /\ rpc \in {"queried", "updated", "returned"}
          /\ execs = 0
          /\ cfg_script = <<>>
          /\ Executed = {}
          /\ pyeval_updates = <<>>
          /\ cwd = Elsewhere
          /\ yml_configs = loaded_configs

\* C23 witness: both levels have a cfg.py, level 0 has a placeholder at
\* a.x that the allow-list leaves out, and the configuration is returned
\* without a call of exec.
C23_Witness ==
    /\ rpc = "returned"
    /\ pyeval_allowed_keys = {<<"a">>}
    /\ \A l \in Levels : tree[l][FILENAME_PY] = Script
    /\ 0 \in DOMAIN loaded_configs
    /\ loaded_configs[0] = Mapping("a" :> Mapping("x" :> Str(py_ones)))
    /\ execs = 0

\* The dotted keys of the placeholders of a fragment that the allow-list,
\* if there is one, lets through.
PlaceholdersToEvaluate(yml_config) ==
    {dot_key \in DOMAIN flatten_nested_dict(yml_config) :
        /\ MatchesTemplate(flatten_nested_dict(yml_config)[dot_key])
        /\ pyeval_allowed_keys = None \/ dot_key \in pyeval_allowed_keys}

\* The levels deeper than l whose fragment holds something at dot_key.
DeeperDefining(configs, l, dot_key) ==
    {d \in DOMAIN configs : d > l /\ ValueAt(configs[d], dot_key) # NoValue}

\* C26: a query found at a level stays in the script and is evaluated
\* also when a deeper level defines its dotted key: its expressions are a
\* statement of cfg_script, a raise in that statement ends the resolution
\* without a configuration, and when the configuration is returned the
\* expression has been evaluated while the key holds what the deepest
\* level defining it gives.
C26_OverriddenQueryStillEvaluated ==
    \A l \in DOMAIN loaded_configs :
        \A dot_key \in PlaceholdersToEvaluate(loaded_configs[l]) :
            (rpc # "loaded" /\ DeeperDefining(loaded_configs, l, dot_key) # {}) =>
                /\ l \in DOMAIN pyeval_queries
                /\ dot_key \in DOMAIN pyeval_queries[l]
                /\ rpc \in {"exec", "raised", "updated", "returned"} =>
                      Stmt("queries", l) \in StmtsOf(l)
                /\ (rpc = "raised" /\ cfg_script[ip] = Stmt("queries", l)) =>
                      yml_merged_config = NoConfig
                /\ rpc = "returned" =>
                      /\ Stmt("queries", l) \in Executed
                      /\ pyeval_updates[l][dot_key] =
                            Scalar(pyeval(pyeval_queries[l][dot_key]))
                      /\ ValueAt(yml_merged_config, dot_key) =
                            ValueAt(yml_configs[Deepest(DeeperDefining(
                                        yml_configs, l, dot_key))], dot_key)

\* C26 witness: level 0 has the placeholder py@1+1 at a.x and level 1 the
\* number 1; the expression was evaluated to 2 and the configuration
\* returned holds 1 at a.x.
C26_Witness ==
    /\ rpc = "returned"
    /\ DOMAIN loaded_configs = Levels
    /\ loaded_configs[0] = Mapping("a" :> Mapping("x" :> Str(py_ones)))
    /\ loaded_configs[1] = Mapping("a" :> Mapping("x" :> Scalar(1)))
    /\ 0 \in DOMAIN pyeval_updates
    /\ <<"a", "x">> \in DOMAIN pyeval_updates[0]
    /\ pyeval_updates[0][<<"a", "x">>] = Scalar(2)
    /\ ValueAt(yml_merged_config, <<"a", "x">>) = Scalar(1)

\* A level deeper than l overrides dot_key: its fragment holds something
\* at the key, or a leaf at one of the keys above it.
RECURSIVE HoldsOnPath(_, _, _)
HoldsOnPath(config, dot_key, n) ==
    IF n > Len(dot_key) THEN FALSE
    ELSE LET v == ValueAt(config, SubSeq(dot_key, 1, n))
         IN  /\ v # NoValue
             /\ n = Len(dot_key) \/ ~IsDict(v) \/ HoldsOnPath(config, dot_key, n + 1)
OverriddenDeeper(configs, l, dot_key) ==
    \E d \in DOMAIN configs : d > l /\ HoldsOnPath(configs[d], dot_key, 1)

\* C27: with an allow-list, a placeholder whose dotted key is not in the
\* list is never evaluated and its fragment keeps it as loaded, and the
\* configuration returned holds the 'py@...' string itself at that key
\* unless a deeper level overrides the key.
C27_UnlistedPlaceholderKept ==
    pyeval_allowed_keys # None =>
        \A l \in DOMAIN loaded_configs :
            \A dot_key \in DOMAIN flatten_nested_dict(loaded_configs[l])
                             \ pyeval_allowed_keys :
                LET leaf == flatten_nested_dict(loaded_configs[l])[dot_key]
                IN  MatchesTemplate(leaf) =>
                       /\ l \in DOMAIN pyeval_queries =>
                             dot_key \notin DOMAIN pyeval_queries[l]
                       /\ l \in DOMAIN pyeval_updates =>
                             dot_key \notin DOMAIN pyeval_updates[l]
                       /\ ValueAt(yml_configs[l], dot_key) = leaf
                       /\ (rpc = "returned"
                              /\ ~OverriddenDeeper(yml_configs, l, dot_key)) =>
                             ValueAt(yml_merged_config, dot_key) = leaf

\* C27 witness: a.x alone is allowed; the placeholder of level 0 at a.x was
\* evaluated, and the configuration returned holds at a the placeholder of
\* level 1, which is not in the list, as the string it was.
C27_Witness ==
    /\ rpc = "returned"
    /\ pyeval_allowed_keys = {<<"a", "x">>}
    /\ DOMAIN loaded_configs = Levels
    /\ loaded_configs[1] = Mapping("a" :> Str(py_ones))
    /\ DOMAIN pyeval_updates = {0}
    /\ execs = 1
    /\ ValueAt(yml_merged_config, <<"a">>) = Str(py_ones)

\* The dotted keys at which root_cfg.yml and cfg.yml of the directory of
\* level l both have a leaf, each another value.
KeysInConflict(l) ==
    IF tree[l][FILENAME_ROOT] = NoFile \/ tree[l][FILENAME_YML] = NoFile
    THEN {}
    ELSE LET root == flatten_nested_dict(tree[l][FILENAME_ROOT])
             yml == flatten_nested_dict(tree[l][FILENAME_YML])
         IN  {dot_key \in DOMAIN root \cap DOMAIN yml : root[dot_key] # yml[dot_key]}

\* C29: when root_cfg.yml and cfg.yml of one directory give a key two
\* values, the fragment of that level holds at the key the value of the
\* same file in every resolution of the tree: what a later run loads there
\* is what the first run loaded.
C29_SameFileWinsEveryRun ==
    \A l \in DOMAIN loaded_configs \cap DOMAIN first_loaded :
        \A dot_key \in KeysInConflict(l) :
            ValueAt(loaded_configs[l], dot_key) = ValueAt(first_loaded[l], dot_key)

(***************************************************************************)
(* Properties of the snake.                                                *)
(***************************************************************************)
\* The directories from path up that hold the stop file.
StopFolds == {f \in 0 .. snake_path : FILENAME_ROOT \in listing[f]}
\* Where the ascension ends: the deepest of them, or the filesystem root.
LastFold == IF StopFolds = {} THEN 0 ELSE Deepest(StopFolds)
\* The trail from the start up to LastFold, deepest first, with the files.
Trail ==
    [i \in 1 .. snake_path - LastFold + 1 |->
        <<snake_path + 1 - i, listing[snake_path + 1 - i]>>]

\* C17: the trail holds the start directory and its parents one after the
\* other up to and including the first directory whose listing holds the
\* stop filename, each once, or up to the filesystem root when none holds
\* it; from three levels under the directory with the stop file it has
\* four entries.  snake_create returns it shallowest first,
\* paternal_snake_query deepest first.
C17_TrailEndsAtFirstStopFile ==
    /\ snake # NotReturned =>
          /\ Reversed(snake) = Trail
          /\ (StopFolds # {} /\ snake_path = LastFold + 3) => Len(snake) = 4
    /\ paternal_snake_query(listing, snake_path, FILENAME_ROOT) = Trail

\* C17 witness: the start is at depth 4, its parent at depth 1 and the
\* filesystem root hold the stop file, and the snake returned has the four
\* directories from depth 1 to the start.
C17_Witness ==
    /\ snake # NotReturned
    /\ snake_path = 4
    /\ StopFolds = {0, 1}
    /\ Len(snake) = 4
    /\ snake[1][1] = 1
(***************************************************************************)
(* Properties of the retry loops.                                          *)
(***************************************************************************)
\* C25: an operation that keeps failing with a transient error is tried a
\* fixed number of times only and the failure is then raised: once the
\* listing of get_tags has failed MaxGlobTries times get_tags has raised,
\* force_symlink makes at most n_symlink_tries attempts, and once they
\* have all failed force_symlink has raised, with no link made.
C25_RetriesBoundedThenFatal ==
    /\ glob_fails >= MaxGlobTries => get_tags_pc = "raised"
    /\ symlink_i <= n_symlink_tries
    /\ symlink_i = n_symlink_tries =>
          /\ symlink_pc \notin {"loop", "returned"}
          /\ ~symlink_made
(***************************************************************************)
(* Properties of the splice.                                               *)
(***************************************************************************)
\* The keys of d and of the mappings in it, each as the path of keys that
\* leads to it.
RECURSIVE KeyPaths(_, _)
KeyPaths(d, parent) ==
    UNION {{parent \o <<key>>} \cup
           (IF IsDict(d.m[key]) THEN KeyPaths(d.m[key], parent \o <<key>>)
            ELSE {}) : key \in DOMAIN d.m}

\* The dotted key of a path of keys.
RECURSIVE DottedKey(_)
DottedKey(keys) ==
    IF keys = <<>> THEN <<>> ELSE split(Head(keys)) \o DottedKey(Tail(keys))

\* C28: when the values have been put into the fragments, every fragment
\* has the keys that it had before, none more; the leaf at the dotted key
\* of a query of the level holds the value of the query, and every other
\* leaf of every level is what it was.
C28_SpliceChangesQueriedLeavesOnly ==
    sp_pc = "updated" =>
        LET updates == Evaluated(find_pyeval_queries(sp_configs, None))
        IN  \A l \in DOMAIN sp_configs :
              /\ KeyPaths(sp_spliced[l], <<>>) = KeyPaths(sp_configs[l], <<>>)
              /\ \A keys \in KeyPaths(sp_configs[l], <<>>) :
                    ~IsDict(ValueAt(sp_configs[l], keys)) =>
                        ValueAt(sp_spliced[l], keys) =
                            IF /\ l \in DOMAIN updates
                               /\ DottedKey(keys) \in DOMAIN updates[l]
                            THEN updates[l][DottedKey(keys)]
                            ELSE ValueAt(sp_configs[l], keys)
====
